---------------------------- MODULE Spec2Model ----------------------------
(***************************************************************************)
(* Model of the pazofunc image pipeline: the dominant-colour classifier    *)
(* (get_dominant_color_with_percentage, get_color_name), the dress-code    *)
(* analysis loops of Upload_image, dresscode_analysis,                     *)
(* scripts/inference_yoloe.py, scripts/inference.py and the batch script   *)
(* test_yoloe_model.py, and the dustbin pass-through of Upload_image,      *)
(* dustbin_detection and scripts/dustbin_detection.py.                     *)
(*                                                                         *)
(* Numbers that Python holds as floats are held exactly: a colour is a     *)
(* record [r, g, b, den] standing for (r/den, g/den, b/den), a percentage  *)
(* is [num, den], a box coordinate is an integer count of tenths.          *)
(***************************************************************************)
EXTENDS Integers, Sequences, FiniteSets, TLC

VARIABLES
    \* one call of get_color_name
    rgb, color_name,
    \* one call of get_dominant_color_with_percentage
    image, box, k, km_labels, dominant,
    \* one dress-code analysis
    path, pc, processed, conf, shirt_color, pant_color, shoe_color, result,
    \* one dustbin analysis
    dpath, boxes, dresult,
    \* the upload handler: deployment, blob container, one record per invocation
    env, store, request, hpc, files, uploaded_urls, results, response,
    storage_ops, analysis_calls,
    \* one request to the dresscode_analysis or dustbin_detection function
    fn_request, fn_model, fn_response,
    \* one request to /infer and the Mongo collection
    infer_pc, infer_request, attempt, infer_detections, infer_log,
    infer_response, collection, mongo_docs, download_log,
    \* the Flask endpoints: /tmp and one record per request
    tmp, script_request, script_pc, script_img, script_results,
    \* the temporary files of the functions' host that exist
    temp_files,
    \* the Streamlit session of app.py, after each run of the script
    st_images, st_urls, st_shown, st_status, st_analyzed,
    \* run_pipeline.main and its child processes
    rp_pc, started, terminated

colorVars == <<rgb, color_name>>
domVars   == <<image, box, k, km_labels, dominant>>
dressVars == <<path, pc, processed, conf, shirt_color, pant_color, shoe_color, result>>
dustVars  == <<dpath, boxes, dresult>>
uploadVars == <<env, store, request, hpc, files, uploaded_urls, results,
                response, storage_ops, analysis_calls>>
fnVars     == <<fn_request, fn_model, fn_response>>
inferVars  == <<infer_pc, infer_request, attempt, infer_detections, infer_log,
                infer_response, collection, mongo_docs, download_log>>
scriptVars == <<tmp, script_request, script_pc, script_img, script_results>>
stVars     == <<st_images, st_urls, st_shown, st_status, st_analyzed>>
rpVars     == <<rp_pc, started, terminated>>
appVars    == <<stVars, rpVars>>
webVars    == <<uploadVars, fnVars, inferVars, scriptVars, temp_files, appVars>>
vars      == <<rgb, color_name, image, box, k, km_labels, dominant,
               path, pc, processed, conf, shirt_color, pant_color, shoe_color,
               result, dpath, boxes, dresult,
               env, store, request, hpc, files, uploaded_urls, results,
               response, storage_ops, analysis_calls,
               fn_request, fn_model, fn_response,
               infer_pc, infer_request, attempt, infer_detections, infer_log,
               infer_response, collection, mongo_docs, download_log,
               tmp, script_request, script_pc, script_img, script_results,
               temp_files,
               st_images, st_urls, st_shown, st_status, st_analyzed,
               rp_pc, started, terminated>>

\* Python's None
None == "None"

(***************************************************************************)
(* Bounds of the model                                                     *)
(***************************************************************************)
\* colour components are sampled within Margin of each threshold
Margin == 1
\* width and height of the decoded image, in pixels
ImgW == 3
ImgH == 2
\* largest cluster count k passed to get_dominant_color_with_percentage
MaxK == 3
\* most detections one analysis processes
MaxDet == 3
\* most boxes one dustbin inference returns
MaxBoxes == 2
\* most file parts of one request
MaxFiles == 2

(***************************************************************************)
(* get_color_name                                                          *)
(***************************************************************************)
WhiteMin   == 170
ChannelGap == 40
BlackMax   == 90

Abs(x) == IF x < 0 THEN -x ELSE x

\* the colour (r, g, b) with integer components
Exact(r, g, b) == [r |-> r, g |-> g, b |-> b, den |-> 1]

\* brightness = np.mean([r, g, b]) compared with a threshold t:
\* (r + g + b) / (3 * den) > t
BrighterThan(c, t) == c.r + c.g + c.b > t * 3 * c.den
DarkerThan(c, t)   == c.r + c.g + c.b < t * 3 * c.den

\* get_color_name with the brightness comparisons made non-strict
get_color_name_nonstrict(c) ==
    IF ~DarkerThan(c, WhiteMin)
       /\ Abs(c.r - c.g) < ChannelGap * c.den
       /\ Abs(c.r - c.b) < ChannelGap * c.den
    THEN "white"
    ELSE IF ~BrighterThan(c, BlackMax)
    THEN "black"
    ELSE "other"

get_color_name(c) ==
    IF BrighterThan(c, WhiteMin)
       /\ Abs(c.r - c.g) < ChannelGap * c.den
       /\ Abs(c.r - c.b) < ChannelGap * c.den
    THEN "white"
    ELSE IF DarkerThan(c, BlackMax)
    THEN "black"
    ELSE "other"

\* component values the colour calls are made with
Near(t) == {x \in (t - Margin)..(t + Margin) : x >= 0 /\ x <= 255}
Levels ==
    Near(WhiteMin) \cup Near(BlackMax) \cup Near(WhiteMin + ChannelGap)
        \cup {0, 10, 40, 120, 200, 250, 255}

ColorInit ==
    /\ rgb = <<>>
    /\ color_name = None

\* one call: color_name = get_color_name((r, g, b))
ClassifyColor ==
    /\ rgb = <<>>
    /\ \E r \in Levels, g \in Levels, b \in Levels :
          /\ rgb' = <<r, g, b>>
          /\ color_name' = get_color_name(Exact(r, g, b))
    /\ UNCHANGED <<domVars, dressVars, dustVars, webVars>>


(***************************************************************************)
(* get_dominant_color_with_percentage                                      *)
(***************************************************************************)
\* pixels as cv2 holds them: (B, G, R)
WhitePx  == <<250, 250, 250>>
VioletPx == <<200, 40, 120>>

\* a decoded image, image[y + 1][x + 1]: white left of column s, violet from it
SplitImage(s) ==
    [y \in 1..ImgH |-> [x \in 1..ImgW |-> IF x - 1 < s THEN WhitePx ELSE VioletPx]]
Images == {SplitImage(s) : s \in 0..ImgW}

\* box coordinates are floats in pixel units, held in tenths: 0.0, 0.5, 1.0, ...
Coords(n) == {10 * i : i \in 0..n} \cup {10 * i + 5 : i \in 0..(n - 1)}
Boxes == Coords(ImgW) \X Coords(ImgH) \X Coords(ImgW) \X Coords(ImgH)

\* round(x) in place of int(x)
TruncRounding(x10) == (x10 + 5) \div 10

\* int(x): truncation toward zero
Trunc(x10) == IF x10 >= 0 THEN x10 \div 10 ELSE -((-x10) \div 10)

\* a slice bound as Python normalises it against a dimension of length n
SliceBound(i, n) ==
    IF i < 0 THEN (IF i + n < 0 THEN 0 ELSE i + n) ELSE (IF i > n THEN n ELSE i)

\* number of indices of a[lo:hi] on a dimension of length n
SliceLen(lo, hi, n) ==
    IF SliceBound(hi, n) > SliceBound(lo, n)
    THEN SliceBound(hi, n) - SliceBound(lo, n) ELSE 0

ImageHeight(img) == Len(img)
ImageWidth(img)  == Len(img[1])

\* cropped = image[y1:y2, x1:x2] after x1, y1, x2, y2 = map(int, box)
CropRows(img, b) == SliceLen(Trunc(b[2]), Trunc(b[4]), ImageHeight(img))
CropCols(img, b) == SliceLen(Trunc(b[1]), Trunc(b[3]), ImageWidth(img))

\* cropped.size
CropSize(img, b) == CropRows(img, b) * CropCols(img, b) * 3

\* cv2.cvtColor(cropped, cv2.COLOR_BGR2RGB) of one pixel
BGR2RGB(px) == <<px[3], px[2], px[1]>>

\* pixels = cropped.reshape(-1, 3): the crop's pixels, row by row, as (R, G, B)
CropPixels(img, b) ==
    LET rows == CropRows(img, b)
        cols == CropCols(img, b)
        y0   == SliceBound(Trunc(b[2]), ImageHeight(img))
        x0   == SliceBound(Trunc(b[1]), ImageWidth(img))
    IN  [i \in 1..(rows * cols) |->
            BGR2RGB(img[y0 + ((i - 1) \div cols) + 1][x0 + ((i - 1) % cols) + 1])]

Min(a, b) == IF a < b THEN a ELSE b
Range(s) == {s[i] : i \in 1..Len(s)}

\* KMeans(n_clusters=k, n_init=10, random_state=42).fit(pixels).labels_ :
\* equal pixels share a label and min(k, distinct pixels) clusters are
\* populated; which cluster index a group gets is left open.
KMeansLabelings(pixels, kk) ==
    LET distinct == Range(pixels)
        groups   == {f \in [distinct -> 0..(kk - 1)] :
                        Cardinality({f[c] : c \in distinct})
                            = Min(kk, Cardinality(distinct))}
    IN  {[i \in 1..Len(pixels) |-> f[pixels[i]]] : f \in groups}

\* KMeans.fit raises ValueError when n_samples < n_clusters
KMeansRaises(pixels, kk) == Len(pixels) < kk

\* Counter(kmeans.labels_)[l]
CountOf(labels, l) == Cardinality({i \in 1..Len(labels) : labels[i] = l})

FirstIndex(labels, l) ==
    CHOOSE i \in 1..Len(labels) :
        labels[i] = l /\ \A j \in 1..(i - 1) : labels[j] # l

\* the first label counted, in place of the most frequent one
MostCommonFirstSeen(labels) == labels[1]

\* counts.most_common(1)[0][0]: the most frequent label, the first one
\* inserted among equals
MostCommon(labels) ==
    CHOOSE l \in Range(labels) :
        \A m \in Range(labels) \ {l} :
            \/ CountOf(labels, l) > CountOf(labels, m)
            \/ /\ CountOf(labels, l) = CountOf(labels, m)
               /\ FirstIndex(labels, l) < FirstIndex(labels, m)

RECURSIVE ChannelSum(_, _, _, _, _)
ChannelSum(pixels, labels, l, ch, n) ==
    IF n = 0 THEN 0
    ELSE ChannelSum(pixels, labels, l, ch, n - 1)
            + (IF labels[n] = l THEN pixels[n][ch] ELSE 0)

\* kmeans.cluster_centers_[l]: the mean of the pixels labelled l
ClusterCenter(pixels, labels, l) ==
    [r   |-> ChannelSum(pixels, labels, l, 1, Len(pixels)),
     g   |-> ChannelSum(pixels, labels, l, 2, Len(pixels)),
     b   |-> ChannelSum(pixels, labels, l, 3, Len(pixels)),
     den |-> CountOf(labels, l)]

\* percentage = (dominant_count / total) * 100
Percentage(dominant_count, total) == [num |-> dominant_count * 100, den |-> total]

NoCall == [outcome |-> "none"]
Raised(e) == [outcome |-> "raised", error |-> e]
Returned(c, p) == [outcome |-> "returned", color |-> c, percentage |-> p]

\* if cropped.size == 0: return (0, 0, 0), 0.0
EmptyCropResult == Returned(Exact(0, 0, 0), [num |-> 0, den |-> 1])

\* the function's outcome, given the labels the clustering returned
get_dominant_color_with_percentage(img, b, kk, labels) ==
    IF CropSize(img, b) = 0 THEN EmptyCropResult
    ELSE IF KMeansRaises(CropPixels(img, b), kk) THEN Raised("ValueError")
    ELSE LET pixels == CropPixels(img, b)
             idx    == MostCommon(labels)
         IN  Returned(ClusterCenter(pixels, labels, idx),
                      Percentage(CountOf(labels, idx), Len(labels)))

\* whether a call gets as far as fitting the clustering
RunsKMeans(img, b, kk) ==
    CropSize(img, b) # 0 /\ ~KMeansRaises(CropPixels(img, b), kk)

DominantInit ==
    /\ image = <<>>
    /\ box = <<>>
    /\ k = 0
    /\ km_labels = <<>>
    /\ dominant = NoCall

\* one call: dominant = get_dominant_color_with_percentage(image, box, k)
DominantColorCall ==
    /\ dominant.outcome = "none"
    /\ \E img \in Images, b \in Boxes, kk \in 1..MaxK :
          /\ image' = img
          /\ box' = b
          /\ k' = kk
          /\ \E labels \in (IF RunsKMeans(img, b, kk)
                            THEN KMeansLabelings(CropPixels(img, b), kk)
                            ELSE {<<>>}) :
                /\ km_labels' = labels
                /\ dominant' = get_dominant_color_with_percentage(img, b, kk, labels)
    /\ UNCHANGED <<colorVars, dressVars, dustVars, webVars>>


(***************************************************************************)
(* Labels and keyword matching.  A label is a sequence of characters.      *)
(***************************************************************************)
UpperToLower ==
    [c \in {"A", "B", "C", "D", "E", "F", "G", "H", "I", "J", "K", "L", "M",
            "N", "O", "P", "Q", "R", "S", "T", "U", "V", "W", "X", "Y", "Z"} |->
        CASE c = "A" -> "a" [] c = "B" -> "b" [] c = "C" -> "c" [] c = "D" -> "d"
          [] c = "E" -> "e" [] c = "F" -> "f" [] c = "G" -> "g" [] c = "H" -> "h"
          [] c = "I" -> "i" [] c = "J" -> "j" [] c = "K" -> "k" [] c = "L" -> "l"
          [] c = "M" -> "m" [] c = "N" -> "n" [] c = "O" -> "o" [] c = "P" -> "p"
          [] c = "Q" -> "q" [] c = "R" -> "r" [] c = "S" -> "s" [] c = "T" -> "t"
          [] c = "U" -> "u" [] c = "V" -> "v" [] c = "W" -> "w" [] c = "X" -> "x"
          [] c = "Y" -> "y" [] c = "Z" -> "z"]

\* str.lower()
Lower(label) ==
    [i \in 1..Len(label) |->
        IF label[i] \in DOMAIN UpperToLower THEN UpperToLower[label[i]] ELSE label[i]]

\* kw in label
Contains(label, kw) ==
    \E i \in 1..(Len(label) - Len(kw) + 1) :
        \A j \in 1..Len(kw) : label[i + j - 1] = kw[j]

\* any(k in label for k in kws)
AnyKeyword(label, kws) == \E n \in 1..Len(kws) : Contains(label, kws[n])

ShirtKeywords ==
    << <<"s", "h", "i", "r", "t">>,
       <<"b", "l", "o", "u", "s", "e">>,
       <<"t", "o", "p">>,
       <<"t", "-", "s", "h", "i", "r", "t">>,
       <<"t", "e", "e">> >>
PantKeywords ==
    << <<"p", "a", "n", "t">>,
       <<"t", "r", "o", "u", "s", "e", "r">>,
       <<"j", "e", "a", "n">>,
       <<"s", "l", "a", "c", "k", "s">> >>
ShoeKeywords ==
    << <<"s", "h", "o", "e">>,
       <<"f", "o", "o", "t", "w", "e", "a", "r">>,
       <<"s", "n", "e", "a", "k", "e", "r">>,
       <<"b", "o", "o", "t">> >>
\* the lists of test_yoloe_model.py
BatchShirtKeywords ==
    << <<"s", "h", "i", "r", "t">>,
       <<"t", "o", "p">>,
       <<"t", "-", "s", "h", "i", "r", "t">>,
       <<"t", "e", "e">> >>
BatchPantKeywords ==
    << <<"p", "a", "n", "t">>,
       <<"t", "r", "o", "u", "s", "e", "r">>,
       <<"j", "e", "a", "n">> >>

\* r.names of the detector: class index -> label
ClassNames ==
    << <<"T", "-", "S", "h", "i", "r", "t">>,
       <<"p", "a", "n", "t", "s">>,
       <<"s", "h", "o", "e">>,
       <<"s", "k", "i", "r", "t">> >>
Classes == 0..(Len(ClassNames) - 1)

\* names[int(cls)]
NameOf(cls) == ClassNames[cls + 1]

(***************************************************************************)
(* Slot assignment: the if/elif chains of the five code paths              *)
(***************************************************************************)
UnsetSlots == [shirt |-> None, pant |-> None, shoe |-> None]

\* AssignMain that fills a slot only while it is unset: the first detection wins
AssignMainKeepFirst(label, cname, s) ==
    IF AnyKeyword(label, ShirtKeywords)
    THEN (IF s.shirt = None THEN [s EXCEPT !.shirt = cname] ELSE s)
    ELSE IF AnyKeyword(label, PantKeywords)
    THEN (IF s.pant = None THEN [s EXCEPT !.pant = cname] ELSE s)
    ELSE IF AnyKeyword(label, ShoeKeywords)
    THEN (IF s.shoe = None THEN [s EXCEPT !.shoe = cname] ELSE s)
    ELSE s

\* AssignMain with three independent ifs: every matching slot is set
AssignMainEveryMatch(label, cname, s) ==
    [shirt |-> IF AnyKeyword(label, ShirtKeywords) THEN cname ELSE s.shirt,
     pant |-> IF AnyKeyword(label, PantKeywords) THEN cname ELSE s.pant,
     shoe |-> IF AnyKeyword(label, ShoeKeywords) THEN cname ELSE s.shoe]

\* Upload_image, dresscode_analysis, scripts/inference_yoloe.py
AssignMain(label, cname, s) ==
    IF AnyKeyword(label, ShirtKeywords) THEN [s EXCEPT !.shirt = cname]
    ELSE IF AnyKeyword(label, PantKeywords) THEN [s EXCEPT !.pant = cname]
    ELSE IF AnyKeyword(label, ShoeKeywords) THEN [s EXCEPT !.shoe = cname]
    ELSE s

\* scripts/inference.py, a detection of the clothing model
AssignClothing(label, cname, s) ==
    IF AnyKeyword(label, ShirtKeywords) THEN [s EXCEPT !.shirt = cname]
    ELSE IF AnyKeyword(label, PantKeywords) THEN [s EXCEPT !.pant = cname]
    ELSE s

\* scripts/inference.py, a detection of the shoe model
AssignShoe(label, cname, s) ==
    IF AnyKeyword(label, ShoeKeywords) THEN [s EXCEPT !.shoe = cname]
    ELSE s

\* test_yoloe_model.py: two slots, shorter keyword lists
AssignBatch(label, cname, s) ==
    IF AnyKeyword(label, BatchShirtKeywords) THEN [s EXCEPT !.shirt = cname]
    ELSE IF AnyKeyword(label, BatchPantKeywords) THEN [s EXCEPT !.pant = cname]
    ELSE s

PredicatePaths == {"Upload_image", "dresscode_analysis", "inference_yoloe"}
DressPaths == PredicatePaths \cup {"inference", "test_yoloe_model"}

\* the body of one loop iteration after label and color_name are computed
AssignSlots(p, model, label, cname, s) ==
    IF p \in PredicatePaths THEN AssignMain(label, cname, s)
    ELSE IF p = "test_yoloe_model" THEN AssignBatch(label, cname, s)
    ELSE IF model = "clothing" THEN AssignClothing(label, cname, s)
    ELSE AssignShoe(label, cname, s)

(***************************************************************************)
(* The compliance decision                                                 *)
(***************************************************************************)
ShirtRule == "shirt must be white or black"
PantRule  == "pants must be black"
ShoeRule  == "shoes must be black"

\* [x] if cond else []
Only(cond, x) == IF cond THEN <<x>> ELSE <<>>

Decision(status, head, violations, s) ==
    [kind |-> "decision", status |-> status, message |-> head,
     violations |-> violations, detections |-> s]

\* DecidePredicate that reports a missing garment only by its absence: an
\* unset slot is not listed
DecidePredicateSkipUnset(s) ==
    IF s.shirt \in {"white", "black"} /\ s.pant = "black" /\ s.shoe = "black"
    THEN Decision("compliant", "Dress code is appropriate.", <<>>, s)
    ELSE Decision("non_compliant", "Dress code violation: ",
                  Only(s.shirt \notin {None, "white", "black"}, "shirt must be white or black")
                      \o Only(s.pant \notin {None, "black"}, "pants must be black")
                      \o Only(s.shoe \notin {None, "black"}, "shoes must be black"),
                  s)

\* Upload_image 109-121, dresscode_analysis 106-118, inference_yoloe 73-86
DecidePredicate(s) ==
    IF s.shirt \in {"white", "black"} /\ s.pant = "black" /\ s.shoe = "black"
    THEN Decision("compliant", "Dress code is appropriate.", <<>>, s)
    ELSE Decision("non_compliant", "Dress code violation: ",
                  Only(s.shirt \notin {"white", "black"}, ShirtRule)
                      \o Only(s.pant # "black", PantRule)
                      \o Only(s.shoe # "black", ShoeRule),
                  s)

\* a violation list that passes over an unset slot
ViolationListSkipUnset(s) ==
    Only(s.shirt \notin {None, "white", "black"}, ShirtRule)
    \o Only(s.pant \notin {None, "black"}, PantRule)
    \o Only(s.shoe \notin {None, "black"}, ShoeRule)

\* scripts/inference.py 328-350: the violation list decides
ViolationList(s) ==
    (IF s.shirt = None THEN <<"shirt not detected">>
     ELSE Only(s.shirt \notin {"white", "black"}, ShirtRule))
    \o (IF s.pant = None THEN <<"pants not detected">>
        ELSE Only(s.pant # "black", PantRule))
    \o (IF s.shoe = None THEN <<"shoes not detected">>
        ELSE Only(s.shoe # "black", ShoeRule))

DecideViolationList(s) ==
    IF ViolationList(s) = <<>>
    THEN Decision("compliant", "Dress code is appropriate.", <<>>, s)
    ELSE Decision("non_compliant", "Dress code violation: ", ViolationList(s), s)

\* test_yoloe_model.py 88-91 and 119-123: a status only, no shoe slot
DecideBatch(s, ndet) ==
    IF ndet = 0
    THEN [kind |-> "decision", status |-> "Dress Code Violation (No detections)"]
    ELSE IF s.shirt \in {"white", "black"} /\ s.pant = "black"
    THEN [kind |-> "decision", status |-> "Dress Code Passed"]
    ELSE [kind |-> "decision", status |-> "Dress Code Violation"]

Decide(p, s, ndet) ==
    IF p \in PredicatePaths THEN DecidePredicate(s)
    ELSE IF p = "inference" THEN DecideViolationList(s)
    ELSE DecideBatch(s, ndet)

(***************************************************************************)
(* One dress-code analysis                                                 *)
(***************************************************************************)
\* what get_dominant_color_with_percentage hands back for a detection's box:
\* the centre of a solid white, black or violet region, or the ValueError
\* of a crop smaller than k
DominantSamples ==
    {Returned(Exact(250, 250, 250), Percentage(1, 1)),
     Returned(Exact(10, 10, 10), Percentage(1, 1)),
     Returned(Exact(120, 40, 200), Percentage(1, 1)),
     Raised("ValueError")}

\* confidences, in percent; predict(conf=0.25) drops anything lower
Confs == {30, 90}

Slots == [shirt |-> shirt_color, pant |-> pant_color, shoe |-> shoe_color]

DressInit ==
    /\ path = None
    /\ pc = "idle"
    /\ processed = <<>>
    /\ conf = 0
    /\ shirt_color = None
    /\ pant_color = None
    /\ shoe_color = None
    /\ result = [kind |-> "none"]

\* model.predict has returned; shirt_color = pant_color = shoe_color = None
StartAnalysis ==
    /\ pc = "idle"
    /\ \E p \in DressPaths :
          /\ path' = p
          /\ pc' = IF p = "inference" THEN "clothing_loop" ELSE "loop"
    /\ shirt_color' = None
    /\ pant_color' = None
    /\ shoe_color' = None
    /\ UNCHANGED <<processed, conf, result, colorVars, domVars, dustVars, webVars>>

LoopModel == IF pc = "clothing_loop" THEN "clothing"
             ELSE IF pc = "shoe_loop" THEN "shoe" ELSE "dress"

\* one iteration of: for box, cls, conf in zip(xyxy, cls, conf)
ProcessDetection ==
    /\ pc \in {"loop", "clothing_loop", "shoe_loop"}
    /\ Len(processed) < MaxDet
    /\ \E cls \in Classes, dom \in DominantSamples, cf \in Confs :
          LET det == [model |-> LoopModel, cls |-> cls, dom |-> dom] IN
          /\ processed' = Append(processed, det)
          /\ conf' = cf
          /\ IF dom.outcome = "raised"
             THEN /\ pc' = "error"
                  /\ result' = [kind |-> "error", error |-> dom.error]
                  /\ UNCHANGED <<shirt_color, pant_color, shoe_color>>
             ELSE LET s == AssignSlots(path, LoopModel, Lower(NameOf(cls)),
                                       get_color_name(dom.color), Slots)
                  IN  /\ shirt_color' = s.shirt
                      /\ pant_color' = s.pant
                      /\ shoe_color' = s.shoe
                      /\ UNCHANGED <<pc, result>>
    /\ UNCHANGED <<path, colorVars, domVars, dustVars, webVars>>

\* r.names of a detector that also has a label with keywords of two slots
MixedNames ==
    ClassNames \o
    << <<"B", "o", "o", "t", "-", "c", "u", "t", " ", "J", "e", "a", "n", "s">> >>

\* detections of one image of that detector
MaxMixed == 2

\* model.predict of such a detector has returned on one of the paths with
\* the three-slot if/elif chain
MixedInit ==
    /\ path \in PredicatePaths
    /\ pc = "loop"
    /\ processed = <<>>
    /\ conf = 0
    /\ shirt_color = None
    /\ pant_color = None
    /\ shoe_color = None
    /\ result = [kind |-> "none"]

\* one iteration of the loop over the detections of that detector
ProcessMixed ==
    /\ pc = "loop"
    /\ path \in PredicatePaths
    /\ Len(processed) < MaxMixed
    /\ \E cls \in 0..(Len(MixedNames) - 1), dom \in DominantSamples, cf \in Confs :
          LET det == [model |-> "dress", cls |-> cls, dom |-> dom] IN
          /\ processed' = Append(processed, det)
          /\ conf' = cf
          /\ IF dom.outcome = "raised"
             THEN /\ pc' = "error"
                  /\ result' = [kind |-> "error", error |-> dom.error]
                  /\ UNCHANGED <<shirt_color, pant_color, shoe_color>>
             ELSE LET s == AssignMain(Lower(MixedNames[cls + 1]),
                                      get_color_name(dom.color), Slots)
                  IN  /\ shirt_color' = s.shirt
                      /\ pant_color' = s.pant
                      /\ shoe_color' = s.shoe
                      /\ UNCHANGED <<pc, result>>
    /\ UNCHANGED <<path, colorVars, domVars, dustVars, webVars>>

\* scripts/inference.py: the clothing loop is over, shoe_model.predict returns
StartShoeModel ==
    /\ pc = "clothing_loop"
    /\ pc' = "shoe_loop"
    /\ UNCHANGED <<path, processed, conf, shirt_color, pant_color, shoe_color,
                   result, colorVars, domVars, dustVars, webVars>>

\* the loop is over: decide and build the result
DecideDressCode ==
    /\ pc \in {"loop", "shoe_loop"}
    /\ result' = Decide(path, Slots, Len(processed))
    /\ pc' = "done"
    /\ UNCHANGED <<path, processed, conf, shirt_color, pant_color, shoe_color,
                   colorVars, domVars, dustVars, webVars>>


(***************************************************************************)
(* Dustbin pass-through                                                    *)
(***************************************************************************)
DustbinPaths == {"Upload_image", "dustbin_detection", "scripts/dustbin_detection"}

\* r.names of the dustbin detector
DustbinNames == <<"dustbin", "bin">>

\* one box of r.boxes: class index, confidence in percent, xyxy
DetectorBoxes ==
    [cls : 0..(Len(DustbinNames) - 1), conf : Confs,
     xyxy : {<<0, 0, 10, 10>>, <<5, 5, 20, 20>>}]

RECURSIVE SeqsUpTo(_, _)
SeqsUpTo(S, n) ==
    IF n = 0 THEN {<<>>}
    ELSE SeqsUpTo(S, n - 1)
            \cup {Append(q, x) : q \in {t \in SeqsUpTo(S, n - 1) : Len(t) = n - 1},
                                 x \in S}

\* {"label": names[int(cls)], "confidence": float(conf), "bbox": [...]}
ToDetection(b) ==
    [label |-> DustbinNames[b.cls + 1], confidence |-> b.conf, bbox |-> b.xyxy]

\* detections.insert(0, ...) in place of append: the list comes out reversed
CollectDetectionsReversed(bs) == [i \in 1..Len(bs) |-> ToDetection(bs[Len(bs) + 1 - i])]

\* detections = []; for box, cls, conf in zip(...): detections.append({...})
CollectDetections(bs) == [i \in 1..Len(bs) |-> ToDetection(bs[i])]

\* "Found {n} dustbin(s)" / "Detected {n} dustbin(s)." with n filled in
Counted(text, detections) == [text |-> text, n |-> Len(detections)]

\* Upload_image, analyze_from_blob_url with analysis_type "dustbin"
UploadImageDustbinResult(detections) ==
    [status     |-> IF detections # <<>> THEN "dustbin_found" ELSE "no_dustbin",
     message    |-> IF detections # <<>>
                    THEN Counted("Found {n} dustbin(s)", detections)
                    ELSE [text |-> "No dustbin detected"],
     detections |-> detections]

\* dustbin_detection, main
FunctionDustbinResult(detections) ==
    [status     |-> IF detections # <<>> THEN "dustbin_found" ELSE "no_dustbin",
     message    |-> IF detections # <<>>
                    THEN Counted("Detected {n} dustbin(s).", detections)
                    ELSE [text |-> "No dustbin detected in the image."],
     detections |-> detections]

\* scripts/dustbin_detection.py, /detect_dustbin
ScriptDustbinResult(detections) ==
    [status         |-> IF detections # <<>> THEN "dustbin_found" ELSE "no_dustbin",
     message        |-> IF detections # <<>>
                        THEN Counted("Found {n} dustbin(s)", detections)
                        ELSE [text |-> "No dustbin detected"],
     detections     |-> detections,
     total_dustbins |-> Len(detections)]

\* the result each path builds from the detections
DustbinResult(p, detections) ==
    IF p = "Upload_image" THEN UploadImageDustbinResult(detections)
    ELSE IF p = "dustbin_detection" THEN FunctionDustbinResult(detections)
    ELSE ScriptDustbinResult(detections)

DustInit ==
    /\ dpath = None
    /\ boxes = <<>>
    /\ dresult = [status |-> None]

\* predict, collect the detections, build the result
DustbinAnalysis ==
    /\ dpath = None
    /\ \E p \in DustbinPaths, bs \in SeqsUpTo(DetectorBoxes, MaxBoxes) :
          /\ dpath' = p
          /\ boxes' = bs
          /\ dresult' = DustbinResult(p, CollectDetections(bs))
    /\ UNCHANGED <<colorVars, domVars, dressVars, webVars>>

(***************************************************************************)
(* Upload_image.main: the upload handler                                   *)
(***************************************************************************)
\* the handler invocations that may run at the same time
Handlers == 1..2

\* values of the action query parameter (None: the parameter is absent)
Actions == {None, "upload", "dresscode", "dustbin", "resize"}
AnalysisActions == {"dresscode", "dustbin"}

\* req.params.get('action', 'upload'), then all_params['action'] if present
ActionOf(r) == IF r.action = None THEN "upload" ELSE r.action

\* multipart parts: field name, client file name (None: no name), bytes
Fields == {"files", "file"}
Filenames == {"a.jpg", "scan"}
\* "P": bytes with a PNG signature, "X": bytes of no known image type
Bytes == {"P", "X"}
Parts == [field : Fields, filename : Filenames \cup {None}, data : Bytes]

\* request bodies that are not multipart: no JSON, a JSON object without
\* blob_url, with blob_url, with blob_url and an action field
Bodies == {"not_json", "object", "object_url", "object_url_action"}

\* f"image_{i+1}.jpg" for the part at 0-based position i
DefaultName(i) ==
    IF i = 0 THEN "image_1.jpg"
    ELSE IF i = 1 THEN "image_2.jpg"
    ELSE IF i = 2 THEN "image_3.jpg"
    ELSE "image_4.jpg"

BlobNames == Filenames \cup {DefaultName(i) : i \in 0..(MaxFiles - 1)}

\* f"{container_client.url}/{image_name}"
UrlOf(name) == <<"container", name>>
\* no blob_url: the parameter is absent
NoUrl == <<>>
\* a blob reference a client may send for an analysis-only call
ClientUrls == {UrlOf("a.jpg")}

Requests ==
    { r \in [action : Actions, blob_url : ClientUrls \cup {NoUrl},
             body : Bodies, parts : SeqsUpTo(Parts, MaxFiles)] :
        r.parts # <<>> => r.body = "not_json" }

\* blob_url of the JSON body: req.get_json() raises for a body that is not
\* JSON and the handler passes
BodyBlobUrl(r) ==
    IF r.body \in {"object_url", "object_url_action"} THEN UrlOf("a.jpg")
    ELSE NoUrl

\* lines 169-177
BlobUrlOf(r) == IF r.blob_url # NoUrl THEN r.blob_url ELSE BodyBlobUrl(r)

\* MultiDict.getlist('files')
GetList(parts, field) == SelectSeq(parts, LAMBDA p : p.field = field)

\* list(MultiDict.values()): the first part of every field name, in the
\* order the field names first occur
FirstOfEachField(parts) ==
    LET first(i) == \A j \in 1..(i - 1) : parts[j].field # parts[i].field
        idx == { i \in 1..Len(parts) : first(i) }
        RECURSIVE take(_)
        take(i) == IF i > Len(parts) THEN <<>>
                   ELSE IF i \in idx THEN <<parts[i]>> \o take(i + 1)
                   ELSE take(i + 1)
    IN take(1)

\* req.files.getlist('files') or list(req.files.values())
FilesOf(parts) ==
    IF GetList(parts, "files") # <<>> THEN GetList(parts, "files")
    ELSE FirstOfEachField(parts)

\* file.filename or f"image_{i+1}.jpg", i counted from 0
ImageName(file, i) ==
    IF file.filename # None THEN file.filename ELSE DefaultName(i)

\* mimetypes.guess_type by the extension of the name
GuessType(name) == IF name = "scan" THEN None ELSE "image/jpeg"

\* imghdr.what(None, data)
ImghdrWhat(data) == IF data = "P" THEN "png" ELSE None

detect_image_content_type(filename, data) ==
    IF GuessType(filename) # None THEN GuessType(filename)
    ELSE IF ImghdrWhat(data) # None THEN "image/png"
    ELSE "image/jpeg"

\* blob storage: name -> stored blob, NoBlob where nothing is stored
NoBlob == [data |-> None, content_type |-> None]
Blob(data, ct) == [data |-> data, content_type |-> ct]
EmptyStore == [n \in BlobNames |-> NoBlob]

\* what an analysis returns: a result computed from the bytes read, or an
\* error
NoAnalysis == [type |-> None, of |-> None]
AnalysisResult(type, data) ==
    [error |-> None, analysis |-> [type |-> type, of |-> data]]
AnalysisError(msg) == [error |-> msg, analysis |-> NoAnalysis]

\* lines 24-30: both models are loaded, or loading failed and both are None
ModelLoaded(e, type) == e.models

ModelUnavailable(type) ==
    IF type = "dresscode" THEN "Dress code model not available"
    ELSE "Dustbin model not available"

\* outcomes of requests.get(blob_url): the bytes stored under the URL with
\* status 200, another status, or an exception
Downloads(st, url) ==
    {[raised |-> TRUE, status_code |-> 0, data |-> None],
     [raised |-> FALSE, status_code |-> 404, data |-> None]}
    \cup (IF st[url[2]] # NoBlob
          THEN {[raised |-> FALSE, status_code |-> 200, data |-> st[url[2]].data]}
          ELSE {})

\* analyze_from_blob_url for one download outcome d; inference tells whether
\* predict and the code after it run through
analyze_from_blob_url(e, type, d, inference) ==
    IF d.raised THEN AnalysisError("exception")
    ELSE IF d.status_code # 200 THEN AnalysisError("Failed to download image")
    ELSE IF ~ModelLoaded(e, type) THEN AnalysisError(ModelUnavailable(type))
    ELSE IF inference = "raise" THEN AnalysisError("exception")
    ELSE AnalysisResult(type, d.data)

\* lines 74-76, 88, 131, 152 and 155-157: the call wrote its temp file and
\* returned without os.unlink: the model is missing, or an exception was
\* caught
AnalyzeLeavesTempFile(e, type, d, inference) ==
    /\ ~d.raised /\ d.status_code = 200
    /\ ~ModelLoaded(e, type) \/ inference = "raise"

\* the temp files that exist after a call of function owner
TempFilesAfter(tf, owner, left) == IF left THEN Append(tf, owner) ELSE tf

\* an entry numbered from 0, as enumerate() counts without a start
EntryFromZero(res, i, url) ==
    [image |-> i - 1, blob_url |-> url, error |-> res.error,
     analysis |-> res.analysis]

\* analysis_result["image"] = i; analysis_result["blob_url"] = blob_url
Entry(res, i, url) ==
    [image |-> i, blob_url |-> url, error |-> res.error,
     analysis |-> res.analysis]

\* HTTP responses
NoResponse == [status_code |-> 0, kind |-> None, error |-> None,
               results |-> <<>>, uploaded |-> <<>>, count |-> 0,
               blob_url |-> NoUrl]
ErrorResponse(code, msg) ==
    [status_code |-> code, kind |-> "error", error |-> msg,
     results |-> <<>>, uploaded |-> <<>>, count |-> 0, blob_url |-> NoUrl]
ResultsResponse(rs) ==
    [status_code |-> 200, kind |-> "results", error |-> None,
     results |-> rs, uploaded |-> <<>>, count |-> 0, blob_url |-> NoUrl]
UploadedResponse(urls) ==
    [status_code |-> 200, kind |-> "success", error |-> None,
     results |-> <<>>, uploaded |-> urls, count |-> Len(urls),
     blob_url |-> NoUrl]

\* the answer {"blob_url": url} that test_workflow.py and app.py line 50
\* read: a deployed function of another variant, never this handler
BlobUrlResponse(url) ==
    [status_code |-> 200, kind |-> "blob_url", error |-> None,
     results |-> <<>>, uploaded |-> <<>>, count |-> 0, blob_url |-> url]

\* the keys of the JSON object in the body of a response
BodyKeys(resp) ==
    IF resp.kind = "error" THEN {"error"}
    ELSE IF resp.kind = "results" THEN {"results"}
    ELSE IF resp.kind = "success" THEN {"status", "uploaded", "count"}
    ELSE IF resp.kind = "blob_url" THEN {"blob_url"}
    ELSE {}

\* an except clause that answers an exception with 200
ExceptionResponseOk(msg) == ErrorResponse(200, msg)

\* lines 286-293: the handler's except clause
ExceptionResponse(msg) == ErrorResponse(500, msg)

NoRequest == [action |-> None, blob_url |-> NoUrl, body |-> "not_json",
              parts |-> <<>>]

\* the environment of a deployed handler
Environments == [conn_str : BOOLEAN, models : BOOLEAN]
Deployed == [conn_str |-> TRUE, models |-> TRUE]

\* a container that holds nothing, or one blob uploaded earlier
InitialStores ==
    {EmptyStore,
     [EmptyStore EXCEPT !["a.jpg"] = Blob("P", "image/jpeg")]}

HandlersIdle ==
    /\ request = [h \in Handlers |-> NoRequest]
    /\ hpc = [h \in Handlers |-> "idle"]
    /\ files = [h \in Handlers |-> <<>>]
    /\ uploaded_urls = [h \in Handlers |-> <<>>]
    /\ results = [h \in Handlers |-> <<>>]
    /\ response = [h \in Handlers |-> NoResponse]
    /\ temp_files = <<>>
    /\ storage_ops = [h \in Handlers |-> <<>>]
    /\ analysis_calls = [h \in Handlers |-> <<>>]

\* nothing has been requested of a fully configured deployment
UploadIdle ==
    /\ env = Deployed
    /\ store = EmptyStore
    /\ HandlersIdle

\* any configuration, any initial container
UploadInit ==
    /\ env \in Environments
    /\ store \in InitialStores
    /\ HandlersIdle

\* the analysis-only test on the query parameter alone
AnalysisOnlyQueryUrl(r) == r.blob_url # NoUrl /\ ActionOf(r) \in AnalysisActions

\* line 187
AnalysisOnly(r) == BlobUrlOf(r) # NoUrl /\ ActionOf(r) \in AnalysisActions

\* lines 160-231: parameters, the analysis-only branch, the file list, the
\* connection string, the container
Receive(h, r) ==
    /\ request' = [request EXCEPT ![h] = r]
    /\ IF AnalysisOnly(r)
       THEN /\ hpc' = [hpc EXCEPT ![h] = "analyze"]
            /\ UNCHANGED <<files, response, storage_ops>>
       ELSE IF BlobUrlOf(r) = NoUrl /\ FilesOf(r.parts) = <<>>
       THEN /\ hpc' = [hpc EXCEPT ![h] = "done"]
            /\ response' = [response EXCEPT
                               ![h] = ErrorResponse(400, "No files uploaded")]
            /\ UNCHANGED <<files, storage_ops>>
       ELSE IF ~env.conn_str
       THEN /\ hpc' = [hpc EXCEPT ![h] = "done"]
            /\ response' = [response EXCEPT ![h] = ExceptionResponse(
                               "Missing AZURE_STORAGE_CONNECTION_STRING")]
            /\ UNCHANGED <<files, storage_ops>>
       ELSE /\ files' = [files EXCEPT ![h] =
                            IF BlobUrlOf(r) = NoUrl THEN FilesOf(r.parts)
                            ELSE <<>>]
            /\ storage_ops' = [storage_ops EXCEPT ![h] =
                                  Append(@, "create_container")]
            /\ hpc' = [hpc EXCEPT ![h] =
                          IF files'[h] = <<>> THEN "respond" ELSE "upload"]
            /\ UNCHANGED response
    /\ UNCHANGED <<env, store, uploaded_urls, results, analysis_calls>>
    /\ UNCHANGED <<temp_files, appVars, colorVars, domVars, dressVars, dustVars, fnVars, inferVars,
                   scriptVars>>

\* an idle invocation receives one of the requests rs
ReceiveRequest(h, rs) ==
    /\ hpc[h] = "idle"
    /\ \E r \in rs : Receive(h, r)

\* where the handler goes once every file is stored (line 254)
AfterUpload(r) ==
    IF ActionOf(r) \in AnalysisActions THEN "analyze" ELSE "respond"

\* an upload loop that deletes what the request has stored when a later
\* file cannot be stored
UploadFileRollback(h) ==
    /\ hpc[h] = "upload"
    /\ LET i == Len(uploaded_urls[h])
           file == files[h][i + 1]
           image_name == ImageName(file, i)
           content_type == detect_image_content_type(image_name, file.data)
       IN /\ storage_ops' = [storage_ops EXCEPT ![h] = Append(@, image_name)]
          /\ \E raises \in BOOLEAN :
                IF raises
                THEN /\ hpc' = [hpc EXCEPT ![h] = "done"]
                     /\ response' = [response EXCEPT
                                        ![h] = ExceptionResponse("exception")]
                     /\ store' = [n \in BlobNames |->
                                     IF \E j \in 1..i : uploaded_urls[h][j] = UrlOf(n)
                                     THEN NoBlob ELSE store[n]]
                     /\ UNCHANGED uploaded_urls
                ELSE /\ store' = [store EXCEPT
                                     ![image_name] = Blob(file.data, content_type)]
                     /\ uploaded_urls' = [uploaded_urls EXCEPT
                                             ![h] = Append(@, UrlOf(image_name))]
                     /\ hpc' = [hpc EXCEPT ![h] =
                                   IF i + 1 = Len(files[h])
                                   THEN AfterUpload(request[h]) ELSE "upload"]
                     /\ UNCHANGED response
    /\ UNCHANGED <<env, request, files, results, analysis_calls>>
    /\ UNCHANGED <<temp_files, appVars, colorVars, domVars, dressVars, dustVars, fnVars, inferVars,
                   scriptVars>>

\* lines 235-251: one iteration of the upload loop; upload_blob overwrites
\* the name, or raises and the handler answers 500 (lines 286-293)
UploadFile(h) ==
    /\ hpc[h] = "upload"
    /\ LET i == Len(uploaded_urls[h])
           file == files[h][i + 1]
           image_name == ImageName(file, i)
           content_type == detect_image_content_type(image_name, file.data)
       IN /\ storage_ops' = [storage_ops EXCEPT ![h] = Append(@, image_name)]
          /\ \E raises \in BOOLEAN :
                IF raises
                THEN /\ hpc' = [hpc EXCEPT ![h] = "done"]
                     /\ response' = [response EXCEPT
                                        ![h] = ExceptionResponse("exception")]
                     /\ UNCHANGED <<store, uploaded_urls>>
                ELSE /\ store' = [store EXCEPT
                                     ![image_name] = Blob(file.data, content_type)]
                     /\ uploaded_urls' = [uploaded_urls EXCEPT
                                             ![h] = Append(@, UrlOf(image_name))]
                     /\ hpc' = [hpc EXCEPT ![h] =
                                   IF i + 1 = Len(files[h])
                                   THEN AfterUpload(request[h]) ELSE "upload"]
                     /\ UNCHANGED response
    /\ UNCHANGED <<env, request, files, results, analysis_calls>>
    /\ UNCHANGED <<temp_files, appVars, colorVars, domVars, dressVars, dustVars, fnVars, inferVars,
                   scriptVars>>

\* the URLs the handler analyses: the client's blob_url (line 190) or the
\* URLs it has just stored (line 256)
AnalysisTargets(h) ==
    IF AnalysisOnly(request[h]) THEN <<BlobUrlOf(request[h])>>
    ELSE uploaded_urls[h]

\* AnalyzeBlob that lets a failed analysis end the request with 500
AnalyzeBlobAbort(h) ==
    /\ hpc[h] = "analyze"
    /\ LET i == Len(results[h]) + 1
           url == AnalysisTargets(h)[i]
           type == ActionOf(request[h])
       IN \E d \in Downloads(store, url), inference \in {"ok", "raise"} :
             LET res == analyze_from_blob_url(env, type, d, inference)
             IN /\ analysis_calls' = [analysis_calls EXCEPT ![h] = Append(@, i)]
                /\ temp_files' = TempFilesAfter(temp_files, "analyze_from_blob_url",
                                     AnalyzeLeavesTempFile(env, type, d, inference))
                /\ IF res.error # None
                   THEN /\ response' = [response EXCEPT
                                           ![h] = ExceptionResponse(res.error)]
                        /\ hpc' = [hpc EXCEPT ![h] = "done"]
                        /\ UNCHANGED results
                   ELSE /\ results' = [results EXCEPT
                                          ![h] = Append(@, Entry(res, i, url))]
                        /\ hpc' = [hpc EXCEPT ![h] =
                                      IF i = Len(AnalysisTargets(h))
                                      THEN "respond" ELSE "analyze"]
                        /\ UNCHANGED response
    /\ UNCHANGED <<env, store, request, files, uploaded_urls, storage_ops>>
    /\ UNCHANGED <<appVars, colorVars, domVars, dressVars, dustVars, fnVars, inferVars,
                   scriptVars>>

\* lines 190-192 and 256-261: one call of analyze_from_blob_url and the
\* entry made of its result
AnalyzeBlob(h) ==
    /\ hpc[h] = "analyze"
    /\ LET i == Len(results[h]) + 1
           url == AnalysisTargets(h)[i]
           type == ActionOf(request[h])
       IN \E d \in Downloads(store, url), inference \in {"ok", "raise"} :
             /\ results' = [results EXCEPT ![h] = Append(@,
                    Entry(analyze_from_blob_url(env, type, d, inference), i, url))]
             /\ analysis_calls' = [analysis_calls EXCEPT ![h] = Append(@, i)]
             /\ temp_files' = TempFilesAfter(temp_files, "analyze_from_blob_url",
                                  AnalyzeLeavesTempFile(env, type, d, inference))
             /\ hpc' = [hpc EXCEPT ![h] =
                           IF i = Len(AnalysisTargets(h)) THEN "respond"
                           ELSE "analyze"]
    /\ UNCHANGED <<env, store, request, files, uploaded_urls, response,
                   storage_ops>>
    /\ UNCHANGED <<appVars, colorVars, domVars, dressVars, dustVars, fnVars, inferVars,
                   scriptVars>>

\* lines 194-198, 266-270 and 276-284: the 200 responses
Respond(h) ==
    /\ hpc[h] = "respond"
    /\ response' = [response EXCEPT ![h] =
           IF ActionOf(request[h]) \in AnalysisActions
           THEN ResultsResponse(results[h])
           ELSE UploadedResponse(uploaded_urls[h])]
    /\ hpc' = [hpc EXCEPT ![h] = "done"]
    /\ UNCHANGED <<env, store, request, files, uploaded_urls, results,
                   storage_ops, analysis_calls>>
    /\ UNCHANGED <<temp_files, appVars, colorVars, domVars, dressVars, dustVars, fnVars, inferVars,
                   scriptVars>>


(***************************************************************************)
(* dresscode_analysis.main and dustbin_detection.main                      *)
(***************************************************************************)
Functions == {"dresscode_analysis", "dustbin_detection"}

\* request bodies: not JSON, JSON that is not an object, an object without
\* blob_url, an object with blob_url
FnBodies == {"not_json", "array", "object", "object_url"}

ColorValues == {None, "white", "black", "other"}
SlotValues == [shirt : ColorValues, pant : ColorValues, shoe : ColorValues]

NoFnRequest == [function |-> None, body |-> None]
FnResponse(code, msg, res) ==
    [status_code |-> code, error |-> msg, result |-> res]
NoFnResponse == FnResponse(0, None, <<>>)

\* requests.get(blob_url) as the functions see it
FnDownloads ==
    {[raised |-> TRUE, status_code |-> 0],
     [raised |-> FALSE, status_code |-> 404],
     [raised |-> FALSE, status_code |-> 200]}

\* dustbin_detection lines 30-37: a body that is not JSON is answered 400
DustbinFunctionParse(body) ==
    IF body = "not_json" THEN FnResponse(400, "Invalid JSON body", <<>>)
    ELSE NoFnResponse

\* dresscode_analysis lines 53 and 135-141: req.get_json() raises ValueError
\* into the handler's except clause
DresscodeFunctionParse(body) ==
    IF body = "not_json" THEN FnResponse(500, "exception", <<>>)
    ELSE NoFnResponse

\* the checks both functions make after parsing: data.get on a value that is
\* not an object raises, a missing blob_url is answered 400, a missing model
\* 500, a failed download 400
FnValidate(body, model, download, unavailable) ==
    IF body = "array" THEN FnResponse(500, "exception", <<>>)
    ELSE IF body = "object" THEN FnResponse(400, "Missing blob_url", <<>>)
    ELSE IF ~model THEN FnResponse(500, unavailable, <<>>)
    ELSE IF download.raised THEN FnResponse(500, "exception", <<>>)
    ELSE IF download.status_code # 200 THEN FnResponse(400, "Failed to download image", <<>>)
    ELSE NoFnResponse

\* dresscode_analysis.main, lines 49-141
dresscode_analysis_main(body, model, download, inference, s) ==
    IF DresscodeFunctionParse(body) # NoFnResponse
    THEN DresscodeFunctionParse(body)
    ELSE IF FnValidate(body, model, download, "Dress code model not available")
              # NoFnResponse
    THEN FnValidate(body, model, download, "Dress code model not available")
    ELSE IF inference = "raise" THEN FnResponse(500, "exception", <<>>)
    ELSE FnResponse(200, None, <<DecidePredicate(s)>>)

\* dustbin_detection.main, lines 25-132
dustbin_detection_main(body, model, download, inference, bs) ==
    IF DustbinFunctionParse(body) # NoFnResponse
    THEN DustbinFunctionParse(body)
    ELSE IF FnValidate(body, model, download,
                       "Dustbin model not available on server") # NoFnResponse
    THEN FnValidate(body, model, download,
                    "Dustbin model not available on server")
    ELSE IF inference = "raise" THEN FnResponse(500, "Inference failed", <<>>)
    ELSE IF inference = "raise_later" THEN FnResponse(500, "exception", <<>>)
    ELSE FnResponse(200, None, <<FunctionDustbinResult(CollectDetections(bs))>>)

\* the function wrote its temp file (lines 80-82 of dresscode_analysis,
\* 64-66 of dustbin_detection)
FnWritesTempFile(body, model, download) ==
    /\ body = "object_url"
    /\ model
    /\ ~download.raised /\ download.status_code = 200

\* dresscode_analysis.main unlinks at line 127 only: an exception after the
\* temp file was written leaves it
DresscodeLeavesTempFile(body, model, download, inference) ==
    FnWritesTempFile(body, model, download) /\ inference = "raise"

\* dustbin_detection.main unlinks when predict raises (lines 78-81) and at
\* lines 114-117: an exception in between leaves the file
DustbinLeavesTempFile(body, model, download, inference) ==
    FnWritesTempFile(body, model, download) /\ inference = "raise_later"

FnIdle ==
    /\ fn_request = NoFnRequest
    /\ fn_response = NoFnResponse

\* the function's model was loaded at import
FnLoaded == fn_model = TRUE /\ FnIdle

\* the model was loaded, or loading failed and the model is None
FnInit == fn_model \in BOOLEAN /\ FnIdle

\* one request to the dress-code function
DresscodeFunction ==
    /\ fn_request = NoFnRequest
    /\ \E body \in FnBodies, download \in FnDownloads,
          inference \in {"ok", "raise"}, s \in SlotValues :
          /\ fn_request' = [function |-> "dresscode_analysis", body |-> body]
          /\ fn_response' =
                dresscode_analysis_main(body, fn_model, download, inference, s)
          /\ temp_files' = TempFilesAfter(temp_files, "dresscode_analysis",
                DresscodeLeavesTempFile(body, fn_model, download, inference))
    /\ UNCHANGED <<fn_model, appVars, colorVars, domVars, dressVars, dustVars, uploadVars,
                   inferVars, scriptVars>>

\* one request to the dustbin function
DustbinFunction ==
    /\ fn_request = NoFnRequest
    /\ \E body \in FnBodies, download \in FnDownloads,
          inference \in {"ok", "raise", "raise_later"},
          bs \in SeqsUpTo(DetectorBoxes, MaxBoxes) :
          /\ fn_request' = [function |-> "dustbin_detection", body |-> body]
          /\ fn_response' =
                dustbin_detection_main(body, fn_model, download, inference, bs)
          /\ temp_files' = TempFilesAfter(temp_files, "dustbin_detection",
                DustbinLeavesTempFile(body, fn_model, download, inference))
    /\ UNCHANGED <<fn_model, appVars, colorVars, domVars, dressVars, dustVars, uploadVars,
                   inferVars, scriptVars>>

(***************************************************************************)
(* scripts/inference.py: POST /infer                                       *)
(***************************************************************************)
\* most download attempts of /infer: range(1, 4)
DownloadAttempts == 3

InferBodies == {"not_json", "object", "object_url"}
\* Content-Type of the downloaded blob
BlobContentTypes == {"image/jpeg", "application/octet-stream", "", "text/html"}
\* PIL and imghdr on the downloaded bytes: decoded, not identified by PIL and
\* by imghdr, not identified by PIL but named by imghdr, another exception
Decodings == {"ok", "unidentified", "unidentified_named", "raise"}
\* the boxes predict returns
InferBoxes == [cls : {0, 1}, conf : Confs, xyxy : {<<0, 0, 10, 10>>}]
\* insert_one: the record is saved, or insert_one raises before or after it
\* has put an _id into the record
Inserts == {"ok", "raise", "raise_with_id"}

\* the _id of a record: none, an ObjectId, the string of an ObjectId
NoId == [type |-> "none", value |-> 0]
ObjectId(n) == [type |-> "ObjectId", value |-> n]
InferResponse(code, detail, rec) ==
    [status_code |-> code, detail |-> detail, content |-> rec]
NoInferResponse == InferResponse(0, None, <<>>)

\* {"class": int(box.cls), "confidence": float(box.conf), "bbox": [...]}
InferDetection(b) == [class |-> b.cls, confidence |-> b.conf, bbox |-> b.xyxy]
InferDetections(bs) == [i \in 1..Len(bs) |-> InferDetection(bs[i])]

\* lines 239-244
Record(blob_url, detections) ==
    [blob_url |-> blob_url, detections |-> detections,
     total_objects |-> Len(detections), timestamp |-> "utcnow", _id |-> NoId]

\* to_json_safe: an ObjectId becomes its string
to_json_safe(rec) ==
    IF rec._id.type = "ObjectId" THEN [rec EXCEPT !._id.type = "str"] ELSE rec

\* the record after the save of lines 246-256, every exception swallowed:
\* insert_one puts an ObjectId into the record it is given
SavedRecord(rec, available, insert, oid) ==
    IF ~available THEN rec
    ELSE IF insert = "raise" THEN rec
    ELSE [rec EXCEPT !._id = ObjectId(oid)]

\* the line the save logs
SaveLog(available, insert) ==
    IF ~available THEN "MongoDB collection not available; skipping save."
    ELSE IF insert = "ok" THEN "Saved inference result to MongoDB."
    ELSE "MongoDB insertion failed"

\* the documents of the collection after the save
SavedDocs(docs, rec, available, insert, oid) ==
    IF available /\ insert = "ok"
    THEN Append(docs, [rec EXCEPT !._id = ObjectId(oid)])
    ELSE docs

\* lines 246-262 with the except clause of the save left out: a failing
\* insert_one ends the request with an error
SaveAndRespondUnguarded(rec, available, insert, oid) ==
    IF available /\ insert # "ok"
    THEN InferResponse(500, "Internal Server Error", <<>>)
    ELSE InferResponse(200, None,
                       <<to_json_safe(SavedRecord(rec, available, insert, oid))>>)

\* lines 246-262: save best-effort, answer 200 with the record
SaveAndRespond(rec, available, insert, oid) ==
    InferResponse(200, None,
                  <<to_json_safe(SavedRecord(rec, available, insert, oid))>>)

InferIdle ==
    /\ infer_pc = "idle"
    /\ infer_request = [content_type |-> None, body |-> None]
    /\ attempt = 0
    /\ infer_detections = <<>>
    /\ infer_log = None
    /\ infer_response = NoInferResponse
    /\ mongo_docs = <<>>
    /\ download_log = <<>>

\* MONGO_URI is set and the collection was obtained at import
InferConnected == collection = TRUE /\ InferIdle

\* the collection was obtained, or it is None
InferInit == collection \in BOOLEAN /\ InferIdle

\* lines 153-179: parse the body, validate blob_url
InferReceive ==
    /\ infer_pc = "idle"
    /\ \E ct \in {"application/json", "text/plain"}, body \in InferBodies :
          /\ infer_request' = [content_type |-> ct, body |-> body]
          /\ IF body = "not_json"
             THEN /\ infer_response' =
                         InferResponse(400, "Invalid or missing JSON body", <<>>)
                  /\ infer_pc' = "done"
             ELSE IF body = "object"
             THEN /\ infer_response' = InferResponse(400, "Missing blob_url", <<>>)
                  /\ infer_pc' = "done"
             ELSE /\ infer_pc' = "download"
                  /\ UNCHANGED infer_response
    /\ UNCHANGED <<attempt, infer_detections, infer_log, collection, mongo_docs,
                   download_log>>
    /\ UNCHANGED <<temp_files, appVars, colorVars, domVars, dressVars, dustVars, uploadVars,
                   fnVars, scriptVars>>

\* time.sleep(1) of line 194, in seconds
SleepSeconds == 1

\* what the download loop did: requests.get with raise_for_status that
\* returned ("ok") or raised ("failed"), and time.sleep
Got(ok) == [ev |-> IF ok THEN "ok" ELSE "failed", secs |-> 0]
Slept(secs) == [ev |-> "sleep", secs |-> secs]

\* a download loop without the break of line 189
InferDownloadNoBreak ==
    /\ infer_pc = "download"
    /\ attempt < DownloadAttempts
    /\ attempt' = attempt + 1
    /\ \E ok \in BOOLEAN :
          IF ok
          THEN /\ download_log' = Append(download_log, Got(TRUE))
               /\ infer_pc' = IF attempt' = DownloadAttempts THEN "downloaded"
                               ELSE "download"
               /\ UNCHANGED infer_response
          ELSE IF attempt' = DownloadAttempts
          THEN /\ download_log' = Append(download_log, Got(FALSE))
               /\ infer_pc' = "done"
               /\ infer_response' =
                      InferResponse(500, "Failed to download blob", <<>>)
          ELSE /\ download_log' = download_log \o
                                      <<Got(FALSE), Slept(SleepSeconds)>>
               /\ UNCHANGED <<infer_pc, infer_response>>
    /\ UNCHANGED <<infer_request, infer_detections, infer_log, collection,
                   mongo_docs>>
    /\ UNCHANGED <<temp_files, appVars, colorVars, domVars, dressVars, dustVars, uploadVars,
                   fnVars, scriptVars>>

\* lines 185-194: one iteration of the download loop: the attempt, then
\* break, or raise after the third failure, or sleep
InferDownload ==
    /\ infer_pc = "download"
    /\ attempt < DownloadAttempts
    /\ attempt' = attempt + 1
    /\ \E ok \in BOOLEAN :
          IF ok
          THEN /\ download_log' = Append(download_log, Got(TRUE))
               /\ infer_pc' = "downloaded"
               /\ UNCHANGED infer_response
          ELSE IF attempt' = DownloadAttempts
          THEN /\ download_log' = Append(download_log, Got(FALSE))
               /\ infer_pc' = "done"
               /\ infer_response' =
                      InferResponse(500, "Failed to download blob", <<>>)
          ELSE /\ download_log' = download_log \o
                                      <<Got(FALSE), Slept(SleepSeconds)>>
               /\ UNCHANGED <<infer_pc, infer_response>>
    /\ UNCHANGED <<infer_request, infer_detections, infer_log, collection,
                   mongo_docs>>
    /\ UNCHANGED <<temp_files, appVars, colorVars, domVars, dressVars, dustVars, uploadVars,
                   fnVars, scriptVars>>

\* lines 196-262: content type, decoding, inference, record, save, response
InferProcess ==
    /\ infer_pc = "downloaded"
    /\ infer_pc' = "done"
    /\ \E blob_ct \in BlobContentTypes, decoding \in Decodings,
          inference \in {"ok", "raise"},
          bs \in SeqsUpTo(InferBoxes, MaxBoxes), insert \in Inserts :
          IF blob_ct = "text/html"
          THEN /\ infer_response' =
                      InferResponse(400, "Invalid blob content type", <<>>)
               /\ UNCHANGED <<infer_detections, infer_log, mongo_docs>>
          ELSE IF decoding # "ok"
          THEN /\ infer_response' =
                      IF decoding = "unidentified"
                      THEN InferResponse(400, "Invalid image data", <<>>)
                      ELSE IF decoding = "unidentified_named"
                      THEN InferResponse(500, "Internal Server Error", <<>>)
                      ELSE InferResponse(400, "Failed to decode image", <<>>)
               /\ UNCHANGED <<infer_detections, infer_log, mongo_docs>>
          ELSE IF inference = "raise"
          THEN /\ infer_response' = InferResponse(500, "Inference failed", <<>>)
               /\ UNCHANGED <<infer_detections, infer_log, mongo_docs>>
          ELSE LET rec == Record(UrlOf("a.jpg"), InferDetections(bs))
                   oid == Len(mongo_docs) + 1
               IN /\ infer_detections' = InferDetections(bs)
                  /\ infer_log' = SaveLog(collection, insert)
                  /\ mongo_docs' = SavedDocs(mongo_docs, rec, collection,
                                             insert, oid)
                  /\ infer_response' =
                         SaveAndRespond(rec, collection, insert, oid)
    /\ UNCHANGED <<infer_request, attempt, collection, download_log>>
    /\ UNCHANGED <<temp_files, appVars, colorVars, domVars, dressVars, dustVars, uploadVars,
                   fnVars, scriptVars>>

(***************************************************************************)
(* scripts/dustbin_detection.py and scripts/inference_yoloe.py: the Flask  *)
(* endpoints /detect_dustbin and /check_dresscode                          *)
(***************************************************************************)
Endpoints == {"detect_dustbin", "check_dresscode"}

\* f"/tmp/dustbin_input_{i}.jpg" and f"/tmp/input_{i}.jpg"
TmpPath(endpoint, i) == <<endpoint, i>>
TmpPaths == {TmpPath(e, i) : e \in Endpoints, i \in 1..MaxFiles}

NoScriptRequest == [endpoint |-> None, images |-> <<>>]

\* the files of one request: the bytes of every image
ImageLists == SeqsUpTo(Bytes, MaxFiles) \ {<<>>}

ScriptsIdle ==
    /\ tmp = [p \in TmpPaths |-> None]
    /\ script_request = [h \in Handlers |-> NoScriptRequest]
    /\ script_pc = [h \in Handlers |-> "idle"]
    /\ script_img = [h \in Handlers |-> None]
    /\ script_results = [h \in Handlers |-> <<>>]

\* request.files.getlist("images") is not empty: the loop starts
ScriptReceive(h, endpoint, images) ==
    /\ script_pc[h] = "idle"
    /\ script_request' = [script_request EXCEPT
                             ![h] = [endpoint |-> endpoint, images |-> images]]
    /\ script_pc' = [script_pc EXCEPT ![h] = "save"]
    /\ UNCHANGED <<tmp, script_img, script_results>>
    /\ UNCHANGED <<temp_files, appVars, colorVars, domVars, dressVars, dustVars, uploadVars, fnVars,
                   inferVars>>

\* file.save(image_path)
ScriptSave(h) ==
    /\ script_pc[h] = "save"
    /\ LET i == Len(script_results[h]) + 1
           r == script_request[h]
       IN /\ tmp' = [tmp EXCEPT ![TmpPath(r.endpoint, i)] = r.images[i]]
          /\ script_pc' = [script_pc EXCEPT ![h] =
                IF r.endpoint = "check_dresscode" THEN "imread" ELSE "predict"]
    /\ UNCHANGED <<script_request, script_img, script_results>>
    /\ UNCHANGED <<temp_files, appVars, colorVars, domVars, dressVars, dustVars, uploadVars, fnVars,
                   inferVars>>

\* img = cv2.imread(image_path), /check_dresscode only
ScriptImread(h) ==
    /\ script_pc[h] = "imread"
    /\ LET i == Len(script_results[h]) + 1
       IN script_img' = [script_img EXCEPT
                            ![h] = tmp[TmpPath(script_request[h].endpoint, i)]]
    /\ script_pc' = [script_pc EXCEPT ![h] = "predict"]
    /\ UNCHANGED <<tmp, script_request, script_results>>
    /\ UNCHANGED <<temp_files, appVars, colorVars, domVars, dressVars, dustVars, uploadVars, fnVars,
                   inferVars>>

\* model.predict(image_path) and the result entry: the boxes come from the
\* bytes predict reads, the colours of /check_dresscode from img
ScriptPredict(h) ==
    /\ script_pc[h] = "predict"
    /\ LET i == Len(script_results[h]) + 1
           r == script_request[h]
           read == tmp[TmpPath(r.endpoint, i)]
       IN /\ script_results' = [script_results EXCEPT ![h] = Append(@,
                 [image |-> i, boxes_of |-> read,
                  colors_of |-> IF r.endpoint = "check_dresscode"
                                THEN script_img[h] ELSE read])]
          /\ script_pc' = [script_pc EXCEPT ![h] =
                IF i = Len(r.images) THEN "done" ELSE "save"]
    /\ UNCHANGED <<tmp, script_request, script_img>>
    /\ UNCHANGED <<temp_files, appVars, colorVars, domVars, dressVars, dustVars, uploadVars, fnVars,
                   inferVars>>


(***************************************************************************)
(* app.py: the Streamlit front end.  Every interaction reruns the script   *)
(* from the top; st.session_state is what survives a run                   *)
(***************************************************************************)
\* the images a user can select (file_uploader, type jpg, jpeg, png)
StImages == {"a.jpg", "b.png"}

\* st.file_uploader(accept_multiple_files=True): the current selection
Selections ==
    { sel \in SeqsUpTo(StImages, MaxFiles) :
        \A i, j \in 1..Len(sel) : i # j => sel[i] # sel[j] }

\* requests.post(AZURE_FUNCTION_URL, files={'file': (img.name, ...)}) of
\* line 41: the answer of the function behind AZURE_FUNCTION_URL to a plain
\* upload of one file (this handler's 200 or 500, a 200 with blob_url, a
\* 200 with neither key), or an exception of requests
PostOutcomes(img) ==
    {[raised |-> FALSE, response |-> UploadedResponse(<<UrlOf(img)>>)],
     [raised |-> FALSE, response |-> BlobUrlResponse(UrlOf(img))],
     [raised |-> FALSE, response |-> ResultsResponse(<<>>)],
     [raised |-> FALSE, response |-> ExceptionResponse("exception")],
     [raised |-> TRUE, response |-> NoResponse]}

\* lines 43-53: what one 200 answer adds to uploaded_urls
UrlsOfAnswer(resp) ==
    IF "uploaded" \in BodyKeys(resp) THEN resp.uploaded
    ELSE IF "blob_url" \in BodyKeys(resp) THEN <<resp.blob_url>>
    ELSE <<>>

\* the loop of lines 39-56 over the answers outs, from image i on, with urls
\* collected so far: it ends with st.stop(), with an exception, or normally
RECURSIVE UploadLoop(_, _, _)
UploadLoop(outs, i, urls) ==
    IF i > Len(outs) THEN [end |-> "completed", urls |-> urls]
    ELSE IF outs[i].raised THEN [end |-> "raised", urls |-> urls]
    ELSE IF outs[i].response.status_code # 200 THEN [end |-> "stopped", urls |-> urls]
    ELSE UploadLoop(outs, i + 1, urls \o UrlsOfAnswer(outs[i].response))

\* line 73: "uploaded_urls" in st.session_state and st.session_state.uploaded_urls
\* inside the branch of line 28
AnalysisSectionShown(images, urls) == images # <<>> /\ urls # <<>>

\* requests.post(..., json={'blob_url': url}) of lines 83 and 101: a 200
\* answer with the keys the script reads, a 200 answer without them, another
\* status, or an exception of requests
AnalysisPosts == {"ok", "other200", "failed", "raise"}

\* the loop of lines 81-91 and 99-111 from URL i on: the URLs posted, and
\* whether an exception ended the loop
RECURSIVE AnalysisLoop(_, _, _)
AnalysisLoop(urls, outs, i) ==
    IF i > Len(urls) THEN [posted |-> <<>>, raised |-> FALSE]
    ELSE IF outs[i] \in {"raise", "other200"}
    THEN [posted |-> <<urls[i]>>, raised |-> TRUE]
    ELSE LET rest == AnalysisLoop(urls, outs, i + 1)
         IN [posted |-> <<urls[i]>> \o rest.posted, raised |-> rest.raised]

\* no analysis button was pressed yet
NoPosts == [to |-> None, urls |-> <<>>]

StIdle ==
    /\ st_images = <<>>
    /\ st_urls = <<>>
    /\ st_shown = FALSE
    /\ st_status = "none"
    /\ st_analyzed = NoPosts

\* the user changes the selection: a run of the script with no button pressed
SelectImages ==
    /\ \E sel \in Selections :
          /\ sel # st_images
          /\ st_images' = sel
          /\ st_shown' = AnalysisSectionShown(sel, st_urls)
    /\ st_status' = "none"
    /\ UNCHANGED <<st_urls, st_analyzed>>
    /\ UNCHANGED <<rpVars, colorVars, domVars, dressVars, dustVars, uploadVars,
                   fnVars, inferVars, scriptVars, temp_files>>

\* lines 34-73: a run with the button "Upload Images" pressed
PressUpload ==
    /\ st_images # <<>>
    /\ \E outs \in [1..Len(st_images) ->
                      UNION { PostOutcomes(img) : img \in StImages }] :
          /\ \A i \in 1..Len(st_images) : outs[i] \in PostOutcomes(st_images[i])
          /\ LET loop == UploadLoop(outs, 1, <<>>)
             IN IF loop.end = "stopped"
                THEN /\ st_status' = "stopped"
                     /\ st_shown' = FALSE
                     /\ UNCHANGED st_urls
                ELSE IF loop.end = "raised"
                THEN /\ st_status' = "upload_error"
                     /\ st_shown' = AnalysisSectionShown(st_images, st_urls)
                     /\ UNCHANGED st_urls
                ELSE IF loop.urls # <<>>
                THEN /\ st_status' = "success"
                     /\ st_urls' = loop.urls
                     /\ st_shown' = AnalysisSectionShown(st_images, loop.urls)
                ELSE /\ st_status' = "no_urls"
                     /\ st_shown' = AnalysisSectionShown(st_images, st_urls)
                     /\ UNCHANGED st_urls
    /\ UNCHANGED <<st_images, st_analyzed>>
    /\ UNCHANGED <<rpVars, colorVars, domVars, dressVars, dustVars, uploadVars,
                   fnVars, inferVars, scriptVars, temp_files>>

\* lines 78-113: a run with one of the analysis buttons pressed: the URLs
\* of st.session_state.uploaded_urls are posted to the function one by one,
\* until a post raises or a 200 answer lacks a key the script reads and the
\* except clause of line 92 or 112 ends the loop
PressAnalysis ==
    /\ st_shown
    /\ \E fn \in Functions, outs \in [1..Len(st_urls) -> AnalysisPosts] :
          LET loop == AnalysisLoop(st_urls, outs, 1)
          IN /\ st_analyzed' = [to |-> fn, urls |-> loop.posted]
             /\ st_status' = IF loop.raised THEN "analysis_error" ELSE "analyzed"
    /\ st_shown' = AnalysisSectionShown(st_images, st_urls)
    /\ UNCHANGED <<st_images, st_urls>>
    /\ UNCHANGED <<rpVars, colorVars, domVars, dressVars, dustVars, uploadVars,
                   fnVars, inferVars, scriptVars, temp_files>>

(***************************************************************************)
(* run_pipeline.py: main starts three child processes and waits            *)
(***************************************************************************)
Children == {"inference_process", "dustbin_process", "streamlit_process"}

RpIdle ==
    /\ rp_pc = "main"
    /\ started = <<>>
    /\ terminated = {}

AppsIdle == StIdle /\ RpIdle

\* subprocess.Popen returned: the child runs
Popen(child, next) ==
    /\ started' = Append(started, child)
    /\ rp_pc' = next
    /\ UNCHANGED terminated

\* line 41
RunInferenceServer ==
    /\ rp_pc = "main"
    /\ Popen("inference_process", "line_42")
    /\ UNCHANGED <<stVars, colorVars, domVars, dressVars, dustVars, uploadVars,
                   fnVars, inferVars, scriptVars, temp_files>>

\* line 42
RunDustbinServer ==
    /\ rp_pc = "line_42"
    /\ Popen("dustbin_process", "sleep")
    /\ UNCHANGED <<stVars, colorVars, domVars, dressVars, dustVars, uploadVars,
                   fnVars, inferVars, scriptVars, temp_files>>

\* line 43: time.sleep(3) returns
SleepReturns ==
    /\ rp_pc = "sleep"
    /\ rp_pc' = "line_46"
    /\ UNCHANGED <<started, terminated>>
    /\ UNCHANGED <<stVars, colorVars, domVars, dressVars, dustVars, uploadVars,
                   fnVars, inferVars, scriptVars, temp_files>>

\* line 46: the Streamlit app is started
RunStreamlitApp ==
    /\ rp_pc = "line_46"
    /\ Popen("streamlit_process", "line_48")
    /\ UNCHANGED <<stVars, colorVars, domVars, dressVars, dustVars, uploadVars,
                   fnVars, inferVars, scriptVars, temp_files>>

\* lines 48-56: the five prints are done, main enters the try block and
\* waits for the Streamlit process
EnterWait ==
    /\ rp_pc = "line_48"
    /\ rp_pc' = "wait"
    /\ UNCHANGED <<started, terminated>>
    /\ UNCHANGED <<stVars, colorVars, domVars, dressVars, dustVars, uploadVars,
                   fnVars, inferVars, scriptVars, temp_files>>

\* line 56: the Streamlit process ends by itself, wait() returns and main
\* returns after the try statement
StreamlitEnds ==
    /\ rp_pc = "wait"
    /\ rp_pc' = "returned"
    /\ UNCHANGED <<started, terminated>>
    /\ UNCHANGED <<stVars, colorVars, domVars, dressVars, dustVars, uploadVars,
                   fnVars, inferVars, scriptVars, temp_files>>

\* Ctrl+C once a child runs: inside the try block lines 57-62 terminate the
\* three children; before it the KeyboardInterrupt leaves main uncaught
KeyboardInterrupt ==
    /\ rp_pc \in {"line_42", "sleep", "line_46", "line_48", "wait"}
    /\ IF rp_pc = "wait"
       THEN /\ terminated' = terminated \cup {"inference_process",
                                             "dustbin_process",
                                             "streamlit_process"}
            /\ rp_pc' = "stopped"
       ELSE /\ rp_pc' = "interrupted"
            /\ UNCHANGED terminated
    /\ UNCHANGED started
    /\ UNCHANGED <<stVars, colorVars, domVars, dressVars, dustVars, uploadVars,
                   fnVars, inferVars, scriptVars, temp_files>>

(***************************************************************************)
(* Specifications                                                          *)
(***************************************************************************)
Analyses == ColorInit /\ DominantInit /\ DressInit /\ DustInit

Init == Analyses /\ UploadIdle /\ FnLoaded /\ InferConnected /\ ScriptsIdle
    /\ AppsIdle

\* a dress-code analysis, one detection at a time
Next ==
    \/ StartAnalysis
    \/ ProcessDetection
    \/ StartShoeModel
    \/ DecideDressCode

Spec == Init /\ [][Next]_vars

\* calls of get_color_name
NextColorName == ClassifyColor
SpecColorName == Init /\ [][NextColorName]_vars

\* calls of get_dominant_color_with_percentage
NextDominant == DominantColorCall
SpecDominant == Init /\ [][NextDominant]_vars

\* dustbin analyses
NextDustbin == DustbinAnalysis
SpecDustbin == Init /\ [][NextDustbin]_vars

\* one request to the upload handler, in any deployment
InitUpload == Analyses /\ UploadInit /\ FnLoaded /\ InferConnected /\ ScriptsIdle
    /\ AppsIdle
NextUpload ==
    \/ ReceiveRequest(1, Requests)
    \/ UploadFile(1)
    \/ AnalyzeBlob(1)
    \/ Respond(1)
SpecUpload == InitUpload /\ [][NextUpload]_vars

\* upload requests of one file part, as two clients send them at once
ConcurrentRequests ==
    { r \in Requests :
        /\ r.action \in {None, "dresscode"}
        /\ r.blob_url = NoUrl
        /\ Len(r.parts) = 1
        /\ r.parts[1].field = "file" }

UploadsIdle == \A h \in Handlers : hpc[h] = "idle"
EndpointsIdle == \A h \in Handlers : script_pc[h] = "idle"

\* two invocations of the upload handler on one container, or two requests
\* to one Flask endpoint on one /tmp; the services share nothing with each
\* other and are explored one at a time
ConcurrentUpload(h) == EndpointsIdle /\ ReceiveRequest(h, ConcurrentRequests)
ConcurrentScript(h) ==
    /\ UploadsIdle
    /\ \E e \in Endpoints, images \in ImageLists :
          /\ \A g \in Handlers : script_request[g].endpoint \in {None, e}
          /\ ScriptReceive(h, e, images)

NextConcurrent ==
    \/ \E h \in Handlers : ConcurrentUpload(h)
    \/ \E h \in Handlers : UploadFile(h)
    \/ \E h \in Handlers : AnalyzeBlob(h)
    \/ \E h \in Handlers : Respond(h)
    \/ \E h \in Handlers : ConcurrentScript(h)
    \/ \E h \in Handlers : ScriptSave(h)
    \/ \E h \in Handlers : ScriptImread(h)
    \/ \E h \in Handlers : ScriptPredict(h)
SpecConcurrent == Init /\ [][NextConcurrent]_vars

\* the slot assignment on a detector with a two-keyword label
InitMixed ==
    /\ ColorInit /\ DominantInit /\ MixedInit /\ DustInit
    /\ UploadIdle /\ FnLoaded /\ InferConnected /\ ScriptsIdle
    /\ AppsIdle
NextMixed == ProcessMixed
SpecMixed == InitMixed /\ [][NextMixed]_vars

\* a session of the front end
NextStreamlit ==
    \/ SelectImages
    \/ PressUpload
    \/ PressAnalysis
SpecStreamlit == Init /\ [][NextStreamlit]_vars

\* the pipeline: main, and the front end while main waits for Streamlit
NextPipeline ==
    \/ RunInferenceServer
    \/ RunDustbinServer
    \/ SleepReturns
    \/ RunStreamlitApp
    \/ EnterWait
    \/ StreamlitEnds
    \/ KeyboardInterrupt
    \/ rp_pc \in {"line_48", "wait"} /\ SelectImages
    \/ rp_pc \in {"line_48", "wait"} /\ PressUpload
    \/ rp_pc \in {"line_48", "wait"} /\ PressAnalysis
SpecPipeline == Init /\ [][NextPipeline]_vars

\* one request to one of the functions or to /infer: the three services share
\* nothing with each other
InitEndpoints == Analyses /\ UploadIdle /\ FnInit /\ InferInit /\ ScriptsIdle
    /\ AppsIdle
NextEndpoints ==
    \/ infer_pc = "idle" /\ DresscodeFunction
    \/ infer_pc = "idle" /\ DustbinFunction
    \/ fn_request = NoFnRequest /\ InferReceive
    \/ InferDownload
    \/ InferProcess
SpecEndpoints == InitEndpoints /\ [][NextEndpoints]_vars

\* requests.get has timeout=20 and time.sleep(1) returns: an iteration of
\* the download loop that can run does run, and so does the rest of /infer
SpecEndpointsFair ==
    SpecEndpoints /\ WF_vars(InferDownload) /\ WF_vars(InferProcess)


(***************************************************************************)
(* Properties                                                              *)
(***************************************************************************)
\* the three-slot rule: shirt white or black, pant black, shoe black
ThreeSlotRule(s) ==
    s.shirt \in {"white", "black"} /\ s.pant = "black" /\ s.shoe = "black"

ReportsPass == result.status \in {"compliant", "Dress Code Passed"}

\* C1: every dress-code decision, on each of the five code paths, reports
\* compliant / passed exactly when all three slots are set and shirt is white
\* or black, pant is black and shoe is black.
C1_PassOnlyByThreeSlotRule ==
    pc = "done" => (ReportsPass <=> ThreeSlotRule(Slots))

\* C2: get_color_name returns white exactly when mean(R,G,B) > 170 and
\* |R-G| < 40 and |R-B| < 40, otherwise black exactly when mean(R,G,B) < 90,
\* otherwise other; (171,171,171) is white, (170,170,170) and (169,169,169)
\* are other, (90,90,90) is other and (89,89,89) is black.
C2_ColorNameThresholds ==
    rgb # <<>> =>
        LET r == rgb[1]
            g == rgb[2]
            b == rgb[3]
            isWhite == r + g + b > 3 * 170 /\ Abs(r - g) < 40 /\ Abs(r - b) < 40
            isBlack == ~isWhite /\ r + g + b < 3 * 90
        IN  /\ (color_name = "white") <=> isWhite
            /\ (color_name = "black") <=> isBlack
            /\ (color_name = "other") <=> (~isWhite /\ ~isBlack)
            /\ rgb = <<171, 171, 171>> => color_name = "white"
            /\ rgb \in {<<170, 170, 170>>, <<169, 169, 169>>, <<90, 90, 90>>}
                  => color_name = "other"
            /\ rgb = <<89, 89, 89>> => color_name = "black"

\* the call on the white side of the brightness boundary
C2_Witness == rgb = <<171, 171, 171>> /\ color_name = "white"

\* the label and colour name of the detection a step has just processed
StepLabel == Lower(NameOf(processed'[Len(processed')].cls))
StepColor == get_color_name(processed'[Len(processed')].dom.color)
ProcessedOne == Len(processed') = Len(processed) + 1 /\ pc' # "error"

\* C3: on every code path, a detection whose lower-cased label contains a
\* shirt keyword is assigned to the shirt slot, one containing a pant keyword
\* to the pant slot, one containing a shoe keyword to the shoe slot, and a
\* label containing no keyword changes no slot.
C3_KeywordAssignsSlot ==
    [][ProcessedOne =>
          /\ AnyKeyword(StepLabel, ShirtKeywords) => shirt_color' = StepColor
          /\ AnyKeyword(StepLabel, PantKeywords) => pant_color' = StepColor
          /\ AnyKeyword(StepLabel, ShoeKeywords) => shoe_color' = StepColor
          /\ (~AnyKeyword(StepLabel, ShirtKeywords)
                /\ ~AnyKeyword(StepLabel, PantKeywords)
                /\ ~AnyKeyword(StepLabel, ShoeKeywords))
             => UNCHANGED <<shirt_color, pant_color, shoe_color>>]_vars

SlotNames == {"shirt", "pant", "shoe"}

\* what a path's loop body does to unset slots for a detection of each class
\* of each model
AssignmentTable ==
    [p \in DressPaths |->
        [m \in {"dress", "clothing", "shoe"} |->
            [c \in Classes |->
                AssignSlots(p, m, Lower(NameOf(c)), "assigned", UnsetSlots)]]]

\* detection d, processed on path p, was assigned to the slot
MapsTo(p, d, slot) ==
    /\ d.dom.outcome = "returned"
    /\ AssignmentTable[p][d.model][d.cls][slot] = "assigned"

MappedIndices(slot) ==
    {i \in 1..Len(processed) : MapsTo(path, processed[i], slot)}

LastMapped(slot) ==
    CHOOSE i \in MappedIndices(slot) : \A j \in MappedIndices(slot) : j <= i

\* C4: after any sequence of detections each slot holds the colour of the
\* last detection, in processing order, that mapped to it, whatever the
\* confidences, and is unset exactly when no detection mapped to it.
C4_LastMappedWins ==
    pc \in {"loop", "clothing_loop", "shoe_loop", "done", "error"} =>
        \A slot \in SlotNames :
            IF MappedIndices(slot) = {}
            THEN Slots[slot] = None
            ELSE Slots[slot] = get_color_name(processed[LastMapped(slot)].dom.color)

\* two shirts of different colours were processed and the later one stands
C4_Witness ==
    /\ pc = "done"
    /\ path = "Upload_image"
    /\ Len(processed) >= 2
    /\ MapsTo(path, processed[1], "shirt")
    /\ MapsTo(path, processed[2], "shirt")
    /\ get_color_name(processed[1].dom.color) = "white"
    /\ get_color_name(processed[2].dom.color) = "other"
    /\ MappedIndices("shirt") = {1, 2}
    /\ shirt_color = "other"

\* the violation list has an entry about the slot
Lists(slot) ==
    \E i \in 1..Len(result.violations) :
        result.violations[i] \in
            (CASE slot = "shirt" -> {"shirt must be white or black", "shirt not detected"}
               [] slot = "pant"  -> {"pants must be black", "pants not detected"}
               [] slot = "shoe"  -> {"shoes must be black", "shoes not detected"})

\* the slot individually fails its rule
Fails(slot) ==
    CASE slot = "shirt" -> shirt_color \notin {"white", "black"}
      [] slot = "pant"  -> pant_color # "black"
      [] slot = "shoe"  -> shoe_color # "black"

\* C5: a non_compliant result lists a slot's rule if and only if that slot
\* individually fails its rule, and lists at least one rule; on the paths
\* using the predicate decision the entries are the three rule texts, in
\* slot order.
C5_ViolationsAreTheFailingSlots ==
    (pc = "done" /\ path # "test_yoloe_model" /\ result.status = "non_compliant") =>
        /\ \A slot \in SlotNames : Lists(slot) <=> Fails(slot)
        /\ result.violations # <<>>
        /\ Len(result.violations) = Cardinality({slot \in SlotNames : Fails(slot)})
        /\ path \in PredicatePaths =>
              result.violations =
                  Only(Fails("shirt"), "shirt must be white or black")
                      \o Only(Fails("pant"), "pants must be black")
                      \o Only(Fails("shoe"), "shoes must be black")

\* shirt other, pant black, shoe black: only the shirt rule is listed
C5_Witness ==
    /\ pc = "done"
    /\ path = "dresscode_analysis"
    /\ shirt_color = "other" /\ pant_color = "black" /\ shoe_color = "black"
    /\ result.status = "non_compliant"
    /\ result.violations = <<"shirt must be white or black">>

\* the whole pixels of a coordinate held in tenths
WholePart(x10) == x10 \div 10

\* the box describes an empty region once its coordinates are truncated
EmptyRegion(b) ==
    WholePart(b[3]) <= WholePart(b[1]) \/ WholePart(b[4]) <= WholePart(b[2])

\* C6: for every box describing an empty crop region (x2 <= x1 or y2 <= y1
\* after integer truncation) the function returns colour (0,0,0) and
\* percentage 0.0, without running the clustering and without raising.
C6_EmptyCropReturnsZero ==
    (dominant.outcome # "none" /\ EmptyRegion(box)) =>
        /\ dominant.outcome = "returned"
        /\ dominant.color = [r |-> 0, g |-> 0, b |-> 0, den |-> 1]
        /\ dominant.percentage.num = 0
        /\ km_labels = <<>>

\* x1 = 1.0 and x2 = 1.5 truncate to the same column
C6_Witness ==
    /\ box = <<10, 0, 15, 20>>
    /\ dominant.outcome = "returned"
    /\ dominant.percentage.num = 0

\* the population of the largest cluster
LargestCluster ==
    CHOOSE n \in {CountOf(km_labels, l) : l \in Range(km_labels)} :
        \A l \in Range(km_labels) : CountOf(km_labels, l) <= n

ClusteredCall == dominant.outcome = "returned" /\ km_labels # <<>>

\* C7 as stated: for every non-empty crop the percentage equals the pixel
\* count of the dominant cluster divided by the total pixel count.
C7_PercentageIsFraction ==
    ClusteredCall =>
        dominant.percentage.num * Len(km_labels)
            = LargestCluster * dominant.percentage.den

\* C7 as amended: for every non-empty crop the percentage equals 100 times
\* the pixel count of the dominant cluster (the cluster with the most
\* assigned pixels) divided by the total pixel count of the crop.
C7_PercentageIsHundredTimesFraction ==
    ClusteredCall =>
        /\ Len(km_labels) = CropRows(image, box) * CropCols(image, box)
        /\ dominant.percentage.num * Len(km_labels)
              = 100 * LargestCluster * dominant.percentage.den
        /\ dominant.color.den = LargestCluster

\* three pixels in two clusters, the minority pixel first and the larger
\* cluster holding two of them: 66.7 percent
C7_Witness ==
    /\ ClusteredCall
    /\ Len(km_labels) = 3
    /\ Cardinality(Range(km_labels)) = 2
    /\ CountOf(km_labels, km_labels[1]) = 1
    /\ dominant.percentage.num * 3 = 200 * dominant.percentage.den

\* C8: get_dominant_color_with_percentage raises no error for any decoded
\* image, any box and any k >= 1, crops with fewer pixels than k included.
C8_NeverRaises == dominant.outcome # "raised"

\* the entry the result holds for a detector box
EntryOf(b) ==
    [label |-> DustbinNames[b.cls + 1], confidence |-> b.conf, bbox |-> b.xyxy]

DustbinStatusAndList ==
    /\ (dresult.status = "dustbin_found") <=> (dresult.detections # <<>>)
    /\ (dresult.status = "no_dustbin") <=> (dresult.detections = <<>>)
    /\ Len(dresult.detections) = Len(boxes)
    /\ \A i \in 1..Len(boxes) : dresult.detections[i] = EntryOf(boxes[i])

\* C10 as stated: every dustbin result has status dustbin_found exactly when
\* its detections list is non-empty and no_dustbin otherwise, the list holds
\* one entry per detector box in detector order, and with no detections the
\* result reports an empty list and a total count of 0.
C10_EveryResultReportsCount ==
    dpath # None =>
        /\ DustbinStatusAndList
        /\ boxes = <<>> =>
              /\ dresult.detections = <<>>
              /\ "total_dustbins" \in DOMAIN dresult
              /\ dresult.total_dustbins = 0

\* C10 as amended: status and list as stated; with no detections the list is
\* empty; a total count is reported by scripts /detect_dustbin only, where it
\* is the length of the list (0 with no detections), and the results of
\* Upload_image and dustbin_detection carry no count.
C10_StatusListAndScriptCount ==
    dpath # None =>
        /\ DustbinStatusAndList
        /\ boxes = <<>> => dresult.detections = <<>>
        /\ ("total_dustbins" \in DOMAIN dresult) <=> (dpath = "scripts/dustbin_detection")
        /\ dpath = "scripts/dustbin_detection" =>
              dresult.total_dustbins = Len(dresult.detections)

\* two boxes of different classes, found and listed in detector order
C10_Witness ==
    /\ dpath = "Upload_image"
    /\ Len(boxes) = 2
    /\ boxes[1].cls = 1 /\ boxes[2].cls = 0
    /\ dresult.status = "dustbin_found"
    /\ dresult.detections[1].label = "bin"
    /\ dresult.detections[2].label = "dustbin"

(***************************************************************************)
(* The upload handler, the functions and the endpoints                     *)
(***************************************************************************)
\* the request carries a blob_url, as query parameter or in a JSON body
CarriesBlobUrl(r) ==
    r.blob_url # NoUrl \/ r.body \in {"object_url", "object_url_action"}

\* the request names an analysis, in the query or in its JSON body
NamesAnalysis(r) ==
    r.action \in AnalysisActions \/ r.body = "object_url_action"

Answered(h) == hpc[h] = "done"

\* the storage operations of an invocation that stored or tried to store a file
UploadOps(h) == SelectSeq(storage_ops[h], LAMBDA op : op # "create_container")

\* C11: a request to the upload handler that carries no file part and is not
\* an analysis-only call (a blob_url together with action dresscode or
\* dustbin) is answered 400 with error 'No files uploaded', before any
\* blob-storage operation
C11_NoFileIsRejected ==
    (/\ Answered(1)
     /\ request[1].parts = <<>>
     /\ ~(CarriesBlobUrl(request[1]) /\ NamesAnalysis(request[1])))
    => /\ response[1].status_code = 400
       /\ response[1].error = "No files uploaded"
       /\ storage_ops[1] = <<>>

\* C12: a request whose action is none of upload, dresscode, dustbin is
\* answered with a non-200 status and an error, and no file is stored
C12_UnsupportedActionIsRejected ==
    (Answered(1) /\ request[1].action \notin {None, "upload", "dresscode", "dustbin"})
    => /\ response[1].status_code # 200
       /\ response[1].kind = "error"
       /\ uploaded_urls[1] = <<>>
       /\ store \in InitialStores

\* C13: a request to dresscode_analysis or dustbin_detection whose body is
\* not valid JSON, or whose JSON lacks blob_url, is answered with a 4xx
\* status, never 5xx, whether or not the model is loaded
C13_BadBodyIsClientError ==
    fn_request.body \in {"not_json", "object"}
    => fn_response.status_code \in 400..499

\* the request has file parts to store and is not analysis-only
CallsForUpload(r) ==
    r.parts # <<>> /\ ~(CarriesBlobUrl(r) /\ r.action \in AnalysisActions)

\* upload_blob raised: the last storage operation stored nothing
StoreRaised(h) == Len(UploadOps(h)) > Len(uploaded_urls[h])

\* C14: if the primary upload cannot be carried out (the connection string
\* is missing, or storing a file raises) the upload handler answers 500 with
\* an error body, never 200, and runs no analysis for the request
C14_FailedUploadAnswers500 ==
    (/\ Answered(1)
     /\ \/ ~env.conn_str /\ CallsForUpload(request[1])
        \/ StoreRaised(1))
    => /\ response[1].status_code = 500
       /\ response[1].kind = "error"
       /\ response[1].error # None
       /\ analysis_calls[1] = <<>>

C14_Witness ==
    /\ Answered(1)
    /\ env.conn_str
    /\ request[1].action = "dresscode"
    /\ Len(uploaded_urls[1]) = 1
    /\ StoreRaised(1)
    /\ response[1].status_code = 500

\* an upload-and-analyze request whose files were all stored
UploadedAndAnalyzed(h) ==
    /\ Answered(h)
    /\ request[h].action \in AnalysisActions
    /\ files[h] # <<>>
    /\ Len(uploaded_urls[h]) = Len(files[h])

\* entry e reports an error, or the analysis of the bytes stored under its URL
EntryOfBlob(e, type) ==
    \/ e.error # None /\ e.analysis = NoAnalysis
    \/ /\ e.error = None
       /\ e.analysis = [type |-> type, of |-> store[e.blob_url[2]].data]

\* C15: in an upload-and-analyze request a failed analysis of one file does
\* not abort the request: the response is 200, every file has its entry with
\* its image number and blob_url, a failed one with an error field, every
\* file stays uploaded, and the other entries are the analyses of their blobs
C15_FailedAnalysisIsEmbedded ==
    UploadedAndAnalyzed(1)
    => /\ response[1].status_code = 200
       /\ response[1].kind = "results"
       /\ Len(response[1].results) = Len(files[1])
       /\ \A i \in 1..Len(files[1]) :
             LET e == response[1].results[i]
             IN /\ e.image = i
                /\ e.blob_url = UrlOf(ImageName(files[1][i], i - 1))
                /\ store[e.blob_url[2]] # NoBlob
                /\ EntryOfBlob(e, request[1].action)

C15_Witness ==
    /\ UploadedAndAnalyzed(1)
    /\ Len(files[1]) = 2
    /\ response[1].results[1].error = "Failed to download image"
    /\ response[1].results[2].error = None
    /\ response[1].results[2].analysis.of = "X"

\* the calls of analyze_from_blob_url made for image i
CallsFor(h, i) == Len(SelectSeq(analysis_calls[h], LAMBDA c : c = i))

\* C16: when the analysis of an uploaded file fails, the handler has made
\* between 2 and 5 attempts before it embeds the error
C16_FailedAnalysisWasRetried ==
    UploadedAndAnalyzed(1)
    => \A i \in 1..Len(results[1]) :
          results[1][i].error # None => CallsFor(1, i) \in 2..5

InferSaveLogs ==
    {"MongoDB collection not available; skipping save.",
     "Saved inference result to MongoDB.", "MongoDB insertion failed"}

\* C17: /infer answers 200 with the same blob_url, detections and
\* total_objects whether the insert succeeds, raises, or the collection is
\* unavailable
C17_LoggingFailureIsNotFatal ==
    infer_log \in InferSaveLogs
    => /\ infer_response.status_code = 200
       /\ Len(infer_response.content) = 1
       /\ infer_response.content[1].blob_url = UrlOf("a.jpg")
       /\ infer_response.content[1].detections = infer_detections
       /\ infer_response.content[1].total_objects = Len(infer_detections)

C17_Witness ==
    /\ infer_log = "MongoDB insertion failed"
    /\ infer_response.status_code = 200
    /\ Len(infer_detections) = 2
    /\ infer_response.content[1].total_objects = 2

\* C18: once a blob is stored under a name, no later upload changes the
\* bytes or the content type stored under that name
C18_StoredBlobIsImmutable ==
    [][\A n \in BlobNames : store[n] # NoBlob => store'[n] = store[n]]_vars

\* C19: under every interleaving of two requests each request's analysis
\* results are computed from the bytes that same request supplied: uploads
\* analysed by the upload handler, images sent to /detect_dustbin and
\* /check_dresscode
C19_OwnBytesOnly ==
    /\ \A h \in Handlers :
          \A i \in 1..Len(results[h]) :
             results[h][i].error = None
             => results[h][i].analysis.of = files[h][i].data
    /\ \A h \in Handlers :
          \A i \in 1..Len(script_results[h]) :
             /\ script_results[h][i].boxes_of = script_request[h].images[i]
             /\ script_results[h][i].colors_of = script_request[h].images[i]

\* the blob_url the request carries
CarriedBlobUrl(r) == IF r.blob_url # NoUrl THEN r.blob_url ELSE UrlOf("a.jpg")

\* C20: a request carrying blob_url (query parameter or JSON body) with
\* action dresscode or dustbin performs no blob-storage operation and is
\* answered 200 with a results list of exactly one entry, image=1 with that
\* blob_url, also when the analysis failed
C20_AnalysisOnlyTouchesNoStorage ==
    (/\ request[1].action \in AnalysisActions
     /\ CarriesBlobUrl(request[1]))
    => /\ storage_ops[1] = <<>>
       /\ store \in InitialStores
       /\ Answered(1)
          => /\ response[1].status_code = 200
             /\ response[1].kind = "results"
             /\ Len(response[1].results) = 1
             /\ response[1].results[1].image = 1
             /\ response[1].results[1].blob_url = CarriedBlobUrl(request[1])

C20_Witness ==
    /\ Answered(1)
    /\ request[1].action = "dustbin"
    /\ request[1].blob_url = NoUrl
    /\ request[1].body = "object_url"
    /\ response[1].status_code = 200
    /\ response[1].results[1].error = "Dustbin model not available"

\* the names under which the invocation stored its files, in storing order
StoredNames(h) == SubSeq(UploadOps(h), 1, Len(uploaded_urls[h]))

\* C21: a file upload with action dresscode or dustbin that succeeds returns
\* 200 with a non-empty results list that has exactly one entry per uploaded
\* file, in request order, entry i numbered image = i (from 1) and carrying
\* the blob URL under which the i-th file was stored
C21_OneEntryPerUploadedFile ==
    (/\ Answered(1)
     /\ request[1].action \in AnalysisActions
     /\ files[1] # <<>>
     /\ response[1].status_code = 200)
    => /\ response[1].results # <<>>
       /\ Len(response[1].results) = Len(files[1])
       /\ Len(StoredNames(1)) = Len(files[1])
       /\ \A i \in 1..Len(files[1]) :
             /\ response[1].results[i].image = i
             /\ response[1].results[i].blob_url = UrlOf(StoredNames(1)[i])
             /\ StoredNames(1)[i] = ImageName(files[1][i], i - 1)

C21_Witness ==
    /\ Answered(1)
    /\ request[1].action = "dustbin"
    /\ Len(files[1]) = 2
    /\ files[1][1].filename = "a.jpg"
    /\ files[1][2].filename = None
    /\ response[1].status_code = 200
    /\ response[1].results[2].image = 2
    /\ response[1].results[2].blob_url = UrlOf("image_2.jpg")
    /\ response[1].results[2].error = None

\* a plain upload of one file: one file part, no action, no blob_url
PlainSingleUpload(r) ==
    /\ Len(r.parts) = 1
    /\ r.action = None
    /\ ~CarriesBlobUrl(r)

\* C22: a 200 response to a plain single-file upload (no action selector)
\* carries the stored blob's URL under the key blob_url
C22_PlainUploadCarriesBlobUrl ==
    (/\ Answered(1)
     /\ PlainSingleUpload(request[1])
     /\ response[1].status_code = 200)
    => "blob_url" \in BodyKeys(response[1])

\* the blob URLs listed in a 200 response: 'uploaded', or the blob_url of
\* every entry of 'results'
ListedUrls(resp) ==
    IF resp.kind = "results"
    THEN [i \in 1..Len(resp.results) |-> resp.results[i].blob_url]
    ELSE resp.uploaded

\* C23: every file part of a multipart upload request is stored and listed
\* in the response, whatever field name it is sent under: one or several
\* parts named 'files', a part named 'file', or any mixture of field names
C23_EveryPartIsStoredAndListed ==
    (/\ Answered(1)
     /\ request[1].parts # <<>>
     /\ ~CarriesBlobUrl(request[1])
     /\ response[1].status_code = 200)
    => /\ Len(ListedUrls(response[1])) = Len(request[1].parts)
       /\ Len(StoredNames(1)) = Len(request[1].parts)
       /\ \A i \in 1..Len(request[1].parts) :
             /\ StoredNames(1)[i] = ImageName(request[1].parts[i], i - 1)
             /\ ListedUrls(response[1])[i] = UrlOf(StoredNames(1)[i])

\* the attempts of the download loop, in order
Attempts == SelectSeq(download_log, LAMBDA e : e.ev # "sleep")
FailedAttempts == SelectSeq(download_log, LAMBDA e : e.ev = "failed")

\* at most three attempts, a one-second sleep between two attempts and
\* nowhere else, nothing after a successful attempt
RetryDiscipline ==
    /\ Len(Attempts) <= 3
    /\ Len(Attempts) = attempt
    /\ \A i \in 1..Len(download_log) :
          LET e == download_log[i]
          IN /\ e.ev = "ok" => i = Len(download_log)
             /\ e.ev = "sleep" =>
                   /\ e.secs = 1
                   /\ i > 1 /\ download_log[i - 1].ev = "failed"
                   /\ i < Len(download_log) => download_log[i + 1].ev # "sleep"
             /\ (e.ev = "failed" /\ i < Len(download_log)) =>
                   download_log[i + 1].ev = "sleep"

\* /infer has gone on to validate the content type and decode the image
Validating ==
    \/ infer_pc = "downloaded"
    \/ /\ infer_pc = "done"
       /\ infer_request.body \notin {"not_json", "object"}
       /\ infer_response.detail # "Failed to download blob"

ValidatesAfterSuccess ==
    Validating => /\ download_log # <<>>
                  /\ download_log[Len(download_log)].ev = "ok"

\* C24 as stated: at most 3 attempts, 1 second of sleep between them, none
\* after a success, validation only after a success, and status 500 exactly
\* when all 3 attempts failed
C24_Answers500ExactlyWhenAllFailed ==
    /\ RetryDiscipline
    /\ ValidatesAfterSuccess
    /\ infer_pc = "done" =>
          (infer_response.status_code = 500 <=> Len(FailedAttempts) = 3)

\* the part of C24 that is a state predicate, with the 500 of the download
\* loop told from the 500 of a later step by its detail
DownloadLoopSafety ==
    /\ RetryDiscipline
    /\ ValidatesAfterSuccess
    /\ infer_pc = "done" =>
          ((/\ infer_response.status_code = 500
            /\ infer_response.detail = "Failed to download blob")
           <=> Len(FailedAttempts) = 3)

\* C24: /infer attempts the download at most 3 times with a 1-second sleep
\* between attempts, makes no attempt after a successful one, validates and
\* decodes only after a successful download, answers 500 'Failed to download
\* blob' exactly when all 3 attempts failed, and the retry loop terminates
C24_BoundedRetryTerminates ==
    /\ []DownloadLoopSafety
    /\ (infer_pc = "download") ~> (infer_pc # "download")

C24_Witness ==
    /\ infer_pc = "done"
    /\ download_log = <<Got(FALSE), Slept(1), Got(FALSE), Slept(1), Got(TRUE)>>
    /\ infer_response.status_code = 200

\* the slot a violation text is about
SlotOfViolation(v) ==
    IF v \in {ShirtRule, "shirt not detected"} THEN "shirt"
    ELSE IF v \in {PantRule, "pants not detected"} THEN "pant"
    ELSE "shoe"

FailingSlots(d) == { SlotOfViolation(d.violations[i]) : i \in 1..Len(d.violations) }

NotDetected(slot) ==
    IF slot = "shirt" THEN "shirt not detected"
    ELSE IF slot = "pant" THEN "pants not detected"
    ELSE "shoes not detected"

\* C25: for every combination of slot values the violation-list decision of
\* scripts/inference.py gives the same status and the same set of failing
\* slots as the predicate decision of Upload_image, dresscode_analysis and
\* inference_yoloe.py; the two differ only in the text for an unset slot,
\* which the violation list reports as 'not detected'
C25_ConventionsAgree ==
    pc = "done"
    => LET byList == DecideViolationList(Slots)
           byPredicate == DecidePredicate(Slots)
       IN /\ byList.status = byPredicate.status
          /\ byList.status = "compliant" <=> byList.violations = <<>>
          /\ FailingSlots(byList) = FailingSlots(byPredicate)
          /\ Len(byList.violations) = Len(byPredicate.violations)
          /\ \A i \in 1..Len(byList.violations) :
                LET slot == SlotOfViolation(byList.violations[i])
                IN /\ slot = SlotOfViolation(byPredicate.violations[i])
                   /\ IF Slots[slot] = None
                      THEN byList.violations[i] = NotDetected(slot)
                      ELSE byList.violations[i] = byPredicate.violations[i]

C25_Witness ==
    /\ pc = "done"
    /\ path = "inference"
    /\ Slots = [shirt |-> "white", pant |-> None, shoe |-> "other"]
    /\ result.status = "non_compliant"
    /\ result.violations = <<"pants not detected", ShoeRule>>

\* C26 as stated: whenever the upload handler answers with a non-200 status
\* no blob has been created or overwritten by that request; when storing
\* the i-th file fails, files 1..i-1 are not left in storage
C26_AllOrNothing ==
    (Answered(1) /\ response[1].status_code # 200)
    => uploaded_urls[1] = <<>>

\* file j of the invocation is the last one it stored under its name
LastUnderItsName(h, j) ==
    \A m \in (j + 1)..Len(StoredNames(h)) : StoredNames(h)[m] # StoredNames(h)[j]

\* C26: whenever the upload handler answers with a non-200 status, the
\* blobs created or overwritten by that request are the files stored before
\* the failing one: none when it answers 400 or fails before the first file
\* is stored; when storing the i-th file fails the answer is 500 and files
\* 1..i-1 stay in storage
C26_StoredFilesStayStored ==
    (Answered(1) /\ response[1].status_code # 200)
    => /\ response[1].status_code \in {400, 500}
       /\ response[1].status_code = 400 =>
             uploaded_urls[1] = <<>> /\ storage_ops[1] = <<>>
       /\ uploaded_urls[1] # <<>> =>
             StoreRaised(1) /\ response[1].status_code = 500
       /\ \A j \in 1..Len(uploaded_urls[1]) :
             /\ store[StoredNames(1)[j]] # NoBlob
             /\ LastUnderItsName(1, j) =>
                   store[StoredNames(1)[j]].data = files[1][j].data

C26_Witness ==
    /\ Answered(1)
    /\ response[1].status_code = 500
    /\ Len(files[1]) = 2
    /\ files[1][1] = [field |-> "files", filename |-> "scan", data |-> "X"]
    /\ UploadOps(1) = <<"scan", "a.jpg">>
    /\ uploaded_urls[1] = <<UrlOf("scan")>>
    /\ store["scan"].data = "X"

\* C27: every temporary image file created by analyze_from_blob_url,
\* dresscode_analysis.main or dustbin_detection.main has been deleted by the
\* time the function returns, on the success path and on every error path;
\* no sequence of requests leaves temp files behind
C27_NoTempFileIsLeft == temp_files = <<>>

\* the label and the colour name of the detection a ProcessMixed step has
\* just processed
MixedLabel == Lower(MixedNames[processed'[Len(processed')].cls + 1])
MixedColor == get_color_name(processed'[Len(processed')].dom.color)

ChangedSlots == { slot \in SlotNames : Slots'[slot] # Slots[slot] }

\* the first of shirt, pant, shoe one of whose keywords the label contains
FirstMatch(label) ==
    IF AnyKeyword(label, ShirtKeywords) THEN "shirt"
    ELSE IF AnyKeyword(label, PantKeywords) THEN "pant"
    ELSE IF AnyKeyword(label, ShoeKeywords) THEN "shoe"
    ELSE None

\* C28: processing one detection changes at most one of the three slots:
\* the label is tested against the shirt, then the pant, then the shoe
\* keywords, only the first matching slot is set (a label containing both
\* 'jean' and 'boot' sets only pant), and the other slots keep their value
C28_OnlyFirstMatchIsSet ==
    [][ProcessedOne =>
          /\ Cardinality(ChangedSlots) <= 1
          /\ \A slot \in SlotNames :
                Slots'[slot] = IF slot = FirstMatch(MixedLabel) THEN MixedColor
                               ELSE Slots[slot]
          /\ (Contains(MixedLabel, <<"j", "e", "a", "n">>)
                /\ Contains(MixedLabel, <<"b", "o", "o", "t">>))
             => pant_color' = MixedColor /\ shoe_color' = shoe_color]_vars

C28_Witness ==
    /\ Len(processed) = 2
    /\ MixedNames[processed[1].cls + 1] = <<"s", "h", "o", "e">>
    /\ Contains(Lower(MixedNames[processed[2].cls + 1]), <<"b", "o", "o", "t">>)
    /\ Contains(Lower(MixedNames[processed[2].cls + 1]), <<"j", "e", "a", "n">>)
    /\ shoe_color = "white"
    /\ pant_color = "black"
    /\ shirt_color = None

\* the blob URLs of a fully successful upload of the selection
UrlsOfSelection(sel) == [i \in 1..Len(sel) |-> UrlOf(sel[i])]

\* C29: in the Streamlit front end, across any sequence of reruns, whenever
\* the analysis buttons are rendered session_state.uploaded_urls holds the
\* blob URLs returned by a fully successful upload of the currently selected
\* images, never URLs left over from an earlier upload
C29_AnalysisOnlyAfterUploadWorked ==
    st_shown => st_urls = UrlsOfSelection(st_images)

MainExited == rp_pc \in {"returned", "stopped", "interrupted"}

\* C30: in run_pipeline.main both inference servers are started before the
\* Streamlit app, and whenever main exits after starting child processes, by
\* Ctrl+C at any point after the first child was started or because the
\* Streamlit process ended by itself, terminate has been called on every
\* started child
C30_EveryStartedChildIsTerminated ==
    /\ \A i \in 1..Len(started) :
          started[i] = "streamlit_process" =>
             {started[j] : j \in 1..(i - 1)} = {"inference_process", "dustbin_process"}
    /\ MainExited => \A i \in 1..Len(started) : started[i] \in terminated

=============================================================================
